---- MODULE Spec2Model ----
(***************************************************************************)
(* Structured block-mesh generation (cf3/mesh/BlockMesh/BlockData.cpp).    *)
(*                                                                         *)
(* Two generators live in the file and both are modelled, and so is the    *)
(* block partitioner partition_blocks (specification PartitionSpec):       *)
(*   "BlockArrays" : BlockArrays::create_mesh with its Implementation      *)
(*                   (Block, Patch, create_blocks, to_local, add_block ...)*)
(*   "BlockData"   : build_mesh_2d / build_mesh_3d with the NodeIndices2D  *)
(*                   and NodeIndices3D index oracles.                      *)
(*                                                                         *)
(* A block topology is a set of blocks placed on the cells of a lattice;   *)
(* two blocks are adjacent across a face iff their cells are lattice       *)
(* neighbours, and every lattice line carries one segment count, so the    *)
(* segment counts of adjacent blocks conform.  Axes are numbered 0, 1, 2   *)
(* (XX, YY, ZZ in the source).  Uint values are kept as their two's        *)
(* complement residues: a value v >= 2^31 is represented by v - 2^32, so   *)
(* that + and - are those of the machine and ULt is the unsigned order.    *)
(***************************************************************************)
EXTENDS Integers, Sequences, FiniteSets, TLC

\* Largest number of blocks of a block topology.
MaxBlocks == 3
\* Largest number of cells of a refined mesh (over all its blocks).
MaxCells == 4
\* Largest number of processes.
MaxProcs == 3

VARIABLES
  generator,            \* "BlockArrays" or "BlockData"
  face_patch,           \* boundary face <<block, axis, side>> -> name of its patch
  dimensions,           \* 2 or 3 (points->row_size(), BlockData::dimension)
  block_cells,          \* block index -> lattice cell of the block (the block's corner points)
  periodic_axes,        \* axes along which the last line of blocks shares its points with the first
  block_subdivisions,   \* block index -> axis -> number of segments
  nb_procs,             \* PE::Comm::instance().size()
  rank,                 \* PE::Comm::instance().rank()
  blocks_distribution,  \* 0..nb_procs -> first block of each process
  past_the_end,         \* the word read at block_list[nb_blocks].start_index
  tables,               \* the tables of BlockArrays that were created: name -> shape
  pc,                   \* position in create_mesh / build_mesh
  block_list,           \* BlockArrays::Implementation::block_list
  block_first_nodes,    \* NodeIndices::block_first_nodes
  bounded,              \* NodeIndices::bounded
  patch_map,            \* BlockArrays::Implementation::patch_map
  nodes_dist,           \* nodes_dist of either generator
  local_nodes_begin,
  local_nodes_end,
  ghost_counter,
  global_to_local,      \* the ghost map: gid -> local id
  volume_size,          \* rows the volume connectivity was resized to
  volume_connectivity,  \* element index -> row of local node ids
  element_idx,          \* running element index of the cell loops
  cur_block,            \* next block of the loop over the local blocks
  nb_nodes,             \* rows mesh.initialize_nodes created
  patch_connectivity,   \* patch name -> rows of local node ids
  gids,                 \* glb_idx of the nodes (build_mesh_2d / 3d)
  ranks,                \* rank of the nodes (build_mesh_2d / 3d)
  mesh_regions,         \* names of the regions created in the generated mesh
  nb_elements_accumulated, \* build_mesh: the gathered element counts, summed up
  elements_glb_idx,     \* build_mesh: Elements component -> glb_idx of its elements
  elements_rank,        \* build_mesh: Elements component -> rank of its elements
  calls                 \* the local-id requests of the last step, in order

input == <<generator, face_patch, dimensions, block_cells, periodic_axes, block_subdivisions, nb_procs,
           rank, blocks_distribution, past_the_end, tables>>
oracle == <<block_list, block_first_nodes, bounded, patch_map>>
distribution == <<nodes_dist, local_nodes_begin, local_nodes_end, volume_size>>
ghosts == <<ghost_counter, global_to_local>>
cells == <<volume_connectivity, element_idx, cur_block>>
output == <<nb_nodes, patch_connectivity, gids, ranks, mesh_regions>>
element_ids == <<nb_elements_accumulated, elements_glb_idx, elements_rank>>

generation == <<input, oracle, distribution, ghosts, cells, output, element_ids, pc, calls>>

VARIABLES
  direction,            \* partition_blocks: the axis to partition along
  nb_partitions,        \* partition_blocks: the number of partitions asked for
  do_assertions,        \* AssertionManager::DoAssertions: cf3_assert is checked
  blocks_in,            \* the BlockData given to partition_blocks
  blocks_to_partition,  \* the copy whose partly partitioned blocks shrink
  blocks_out,           \* the BlockData partition_blocks fills
  block_coordinates,    \* coordinates of the nodes of the serial block mesh
  next_block_layer,
  current_block_layer,
  start_node_mapping,
  end_node_mapping,
  partition,            \* the counter of the loop over the partitions
  partition_nb_slices,
  nb_partitioned,
  ppc,                  \* position in partition_blocks
  pass,                 \* 1, or 2 when partition_blocks runs on its own output
  first_out,            \* blocks_out of the first run, kept by the caller
  layers,               \* the passes of the while loop so far, in order
  undefined,            \* the run has gone through undefined behaviour
  block_mesh            \* the face connectivity of the serial block mesh

VARIABLES
  mc_segments,          \* create_mapped_coords: the segments argument
  mc_gradings,          \* create_mapped_coords: gradings[0 .. nb_edges - 1]
  mapped_coords,        \* create_mapped_coords: the table it fills
  mapped_status         \* "called", then how create_mapped_coords ended

mapping == <<mc_segments, mc_gradings, mapped_coords, mapped_status>>

partition_input == <<direction, nb_partitions>>
sweep == <<blocks_to_partition, block_coordinates, next_block_layer, current_block_layer,
           start_node_mapping, end_node_mapping, partition, partition_nb_slices,
           nb_partitioned>>
partitioner == <<partition_input, blocks_in, block_mesh, blocks_out, sweep, ppc, pass,
                 first_out, layers, undefined>>

vars == <<generation, partitioner, mapping, do_assertions>>

----------------------------------------------------------------------------
(* Block topologies: connected sets of lattice cells *)

Shift(c, d, s) == [c EXCEPT ![d + 1] = @ + s]

NeighborCells(c, D) == {Shift(c, d, s) : d \in 0..(D - 1), s \in {-1, 1}}

MinCoord(S, a) == CHOOSE m \in {c[a] : c \in S} : \A c \in S : m <= c[a]

Normalize(S) == {<<c[1] - MinCoord(S, 1), c[2] - MinCoord(S, 2), c[3] - MinCoord(S, 3)>> : c \in S}

Grow(S, D) == {Normalize(S \cup {c}) : c \in (UNION {NeighborCells(x, D) : x \in S}) \ S}

RECURSIVE ShapesOfSize(_, _)
ShapesOfSize(n, D) ==
  IF n = 1 THEN {{<<0, 0, 0>>}}
  ELSE UNION {Grow(S, D) : S \in ShapesOfSize(n - 1, D)}

Shapes(D) == UNION {ShapesOfSize(n, D) : n \in 1..MaxBlocks}

CellKey(c) == c[1] + MaxCells * c[2] + MaxCells * MaxCells * c[3]

\* Blocks are numbered along x first, then y, then z.
OrderCells(S) ==
  [b \in 0..(Cardinality(S) - 1) |->
     CHOOSE c \in S : Cardinality({x \in S : CellKey(x) < CellKey(c)}) = b]

Lines(S, d) == {c[d + 1] : c \in S}

\* One segment count per lattice line along an axis, for a shape of n blocks.
LineSegments(lines, n) == [lines -> 1..(MaxCells - n + 1)]

\* Number of cells of the mesh of shape S with line segment counts sx, sy, sz.
NbCells(S, sx, sy, sz) ==
  LET RECURSIVE Sum(_)
      Sum(T) == IF T = {} THEN 0
                ELSE LET c == CHOOSE x \in T : TRUE
                     IN sx[c[1]] * sy[c[2]] * sz[c[3]] + Sum(T \ {c})
  IN Sum(S)

\* Monotone distributions of nb blocks over P processes.
Distributions(P, nb) ==
  {bd \in [0..P -> 0..nb] :
     /\ bd[0] = 0
     /\ bd[P] = nb
     /\ \A p \in 0..(P - 1) : bd[p] <= bd[p + 1]}

\* Words the out-of-bounds read of block_list[nb_blocks].start_index can
\* deliver, among others: 0xFFFFFFFF and zeroed memory.
HeapWords == {-1, 0}

----------------------------------------------------------------------------
(* Uint arithmetic *)

\* a < b for two Uint values given as two's complement residues.
ULt(a, b) ==
  IF (a >= 0) = (b >= 0) THEN a < b ELSE b < 0

ULe(a, b) == a = b \/ ULt(a, b)

----------------------------------------------------------------------------
(* Block adjacency (CFaceConnectivity of the block mesh) *)

nb_blocks == Cardinality(DOMAIN block_cells)

Axes == 0..(dimensions - 1)

BlocksAtCell(c) == {b \in DOMAIN block_cells : block_cells[b] = c}

\* The number of lines of blocks along axis d.
NbLines(d) == Cardinality({block_cells[b][d + 1] : b \in DOMAIN block_cells})

\* The lattice cell that holds the points of cell c: along a periodic axis
\* the cell behind the last line is the first one.
Wrap(c) ==
  [a \in 1..3 |-> IF (a - 1) \in periodic_axes THEN c[a] % NbLines(a - 1) ELSE c[a]]

\* The corner points of the block at lattice cell c.
CellPoints(c) ==
  {<<c[1] + i, c[2] + j, c[3] + k>> :
     i \in {0, 1}, j \in {0, 1}, k \in IF dimensions = 3 THEN {0, 1} ELSE {0}}

\* The shape of a table: the number of its rows and the size of a row.
Table(nb_rows, row_size) == [size |-> nb_rows, row_size |-> row_size]

\* BlockArrays::create_points(dimensions, nb_points), where dimensions is 2
\* or 3.
create_points(t, dims, nb_points) == t @@ ("points" :> Table(nb_points, dims))

\* BlockArrays::create_blocks(nb_blocks), the table added to the tables t.
create_blocks_table(t, nb) ==
  t @@ ("blocks" :> Table(nb, IF t["points"].row_size = 3 THEN 8 ELSE 2))

\* BlockArrays::create_block_subdivisions().
create_block_subdivisions(t) ==
  t @@ ("block_subdivisions" :> Table(t["blocks"].size, t["points"].row_size))

\* BlockArrays::create_block_gradings().
create_block_gradings(t) ==
  t @@ ("block_gradings" :> Table(t["blocks"].size, IF t["points"].row_size = 3 THEN 12 ELSE 4))

\* BlockArrays::create_patch(name, nb_faces).
create_patch(t, name, nb_faces) ==
  t @@ (name :> Table(nb_faces, IF t["points"].row_size = 3 THEN 4 ELSE 2))

\* The tables create_mesh checks the handles of.
Handles == {"points", "blocks", "block_subdivisions", "block_gradings"}

\* The handles that are not null.
handles == DOMAIN tables \cap Handles

\* The number of faces in the patch `name`.
NbPatchFaces(name) == Cardinality({f \in DOMAIN face_patch : face_patch[f] = name})

\* The tables after the calls that describe the block topology: points,
\* blocks, subdivisions, gradings and the one patch.
TopologyTables ==
  LET nb_points == Cardinality(UNION {CellPoints(block_cells[b]) : b \in DOMAIN block_cells})
      described ==
        {create_block_gradings(t3) :
           t3 \in {create_block_subdivisions(t2) :
             t2 \in {create_blocks_table(t1, Cardinality(DOMAIN block_cells)) :
               t1 \in {create_points(<<>>, dimensions, nb_points)}}}}
  IN CHOOSE t \in {IF DOMAIN face_patch = {} THEN t4
                    ELSE create_patch(t4, "wall", NbPatchFaces("wall")) : t4 \in described} :
       TRUE

\* The element across the face of block_idx on the s side (-1, +1) of axis d:
\* a block (dimensionality = dimensions) or a patch element of the boundary,
\* of the default patch when no named patch holds the face.
adjacent_element(block_idx, d, s) ==
  LET found == BlocksAtCell(Wrap(Shift(block_cells[block_idx], d, s)))
  IN IF found = {}
       THEN [dimensionality |-> dimensions - 1, second |-> 0,
             name |-> IF <<block_idx, d, s>> \in DOMAIN face_patch
                        THEN face_patch[<<block_idx, d, s>>] ELSE "default_patch"]
       ELSE [dimensionality |-> dimensions, second |-> CHOOSE b \in found : TRUE,
             name |-> "blocks"]

RECURSIVE ProductBelow(_, _)
\* f[0] * ... * f[n-1]
ProductBelow(f, n) == IF n = 0 THEN 1 ELSE ProductBelow(f, n - 1) * f[n - 1]

----------------------------------------------------------------------------
(* BlockArrays::Implementation: Block, create_blocks *)

nullptr == "nullptr"

\* The Block that the loop body of create_blocks fills for block_idx.
NewBlock(block_idx, block_start) ==
  LET subdiv_row == block_subdivisions[block_idx]
      is_bounded == [i \in Axes |-> adjacent_element(block_idx, i, 1).dimensionality # dimensions]
      points == [i \in Axes |-> subdiv_row[i] + (IF is_bounded[i] THEN 1 ELSE 0)]
  IN [start_index |-> block_start,
      strides     |-> [i \in Axes |-> ProductBelow(points, i)],
      bounded     |-> is_bounded,
      nb_points   |-> points,
      segments    |-> subdiv_row,
      nb_elems    |-> ProductBelow(subdiv_row, dimensions),
      neighbors   |-> [i \in Axes |-> IF is_bounded[i] THEN nullptr
                                      ELSE adjacent_element(block_idx, i, 1).second]]

RECURSIVE create_blocks_loop(_, _, _)
create_blocks_loop(block_idx, block_start, list) ==
  IF block_idx = nb_blocks THEN list
  ELSE LET block == NewBlock(block_idx, block_start)
       IN create_blocks_loop(block_idx + 1,
                             block_start + ProductBelow(block.nb_points, dimensions),
                             list @@ (block_idx :> block))

create_blocks == create_blocks_loop(0, 0, <<>>)

\* Block::operator[]: cur is a Block copy, given as the index of the block
\* it was copied from and its search_indices.
BlockSubscript(cur, i) ==
  LET search_direction == Len(cur.search_indices)
      this == block_list[cur.block]
  IN IF i = this.nb_points[search_direction]
       THEN [block |-> this.neighbors[search_direction],
             search_indices |-> Append(cur.search_indices, 0)]
       ELSE [block |-> cur.block,
             search_indices |-> Append(cur.search_indices, i)]

RECURSIVE StrideSum(_, _, _)
StrideSum(strides, search_indices, n) ==
  IF n = 0 THEN 0
  ELSE StrideSum(strides, search_indices, n - 1) + strides[n - 1] * search_indices[n]

\* Block::global_idx
BlockGlobalIdx(cur) ==
  block_list[cur.block].start_index
    + StrideSum(block_list[cur.block].strides, cur.search_indices, dimensions)

RECURSIVE SubscriptAll(_, _, _)
SubscriptAll(cur, idx, d) ==
  IF d = dimensions THEN cur
  ELSE SubscriptAll(BlockSubscript(cur, idx[d]), idx, d + 1)

\* block_list[block_idx][i][j]([k]).global_idx()
BlockArraysGlobalIdx(block_idx, idx) ==
  BlockGlobalIdx(SubscriptAll([block |-> block_idx, search_indices |-> <<>>], idx, 0))

\* The word create_nodes_distribution reads as block_list[b].start_index:
\* block_list has nb_blocks entries, so b = nb_blocks reads past its end.
StartIndexAt(b) ==
  IF b \in DOMAIN block_list THEN block_list[b].start_index ELSE past_the_end

RECURSIVE nodes_dist_loop(_, _, _)
\* The loop of create_nodes_distribution; start(b) is the first node of block b.
nodes_dist_loop(start(_), proc, dist) ==
  IF proc = nb_procs THEN dist
  ELSE nodes_dist_loop(start, proc + 1,
         dist @@ ((proc + 1) :> (dist[proc] + start(blocks_distribution[proc + 1])
                                            - start(blocks_distribution[proc]))))

\* BlockArrays::Implementation::create_nodes_distribution
create_nodes_distribution == nodes_dist_loop(StartIndexAt, 0, (0 :> 0))

----------------------------------------------------------------------------
(* detail::NodeIndices3D and detail::NodeIndices2D *)

XY_2D == 2
XY_3D == 3
XZ == 4
YZ == 5
XYZ == 6

ShouldNotBeHere == "ShouldNotBeHere"

\* A bool used as a factor.
B(flag) == IF flag THEN 1 ELSE 0

\* The row bounded[block] the NodeIndices3D constructor fills.
NodeIndices3D_bounded(block) ==
  LET bx == adjacent_element(block, 0, 1).dimensionality = 2
      by == adjacent_element(block, 1, 1).dimensionality = 2
      bz == adjacent_element(block, 2, 1).dimensionality = 2
  IN (0 :> bx) @@ (1 :> by) @@ (2 :> bz) @@ (XY_3D :> (bx /\ by)) @@ (XZ :> (bx /\ bz))
       @@ (YZ :> (by /\ bz)) @@ (XYZ :> (bx /\ by /\ bz))

\* nb_nodes of a block in the NodeIndices3D constructor.
NodeIndices3D_nb_nodes(block) ==
  LET bnd == NodeIndices3D_bounded(block)
      x_segs == block_subdivisions[block][0]
      y_segs == block_subdivisions[block][1]
      z_segs == block_subdivisions[block][2]
  IN x_segs * y_segs * z_segs
       + B(bnd[0]) * y_segs * z_segs
       + B(bnd[1]) * x_segs * z_segs
       + B(bnd[2]) * x_segs * y_segs
       + B(bnd[XY_3D]) * z_segs
       + B(bnd[XZ]) * y_segs
       + B(bnd[YZ]) * x_segs
       + B(bnd[XYZ])

\* The row bounded[block] the NodeIndices2D constructor fills.
NodeIndices2D_bounded(block) ==
  LET bx == adjacent_element(block, 0, 1).dimensionality = 1
      by == adjacent_element(block, 1, 1).dimensionality = 1
  IN (0 :> bx) @@ (1 :> by) @@ (XY_2D :> (bx /\ by))

\* nb_nodes of a block in the NodeIndices2D constructor.
NodeIndices2D_nb_nodes(block) ==
  LET bnd == NodeIndices2D_bounded(block)
      x_segs == block_subdivisions[block][0]
      y_segs == block_subdivisions[block][1]
  IN x_segs * y_segs + B(bnd[0]) * y_segs + B(bnd[1]) * x_segs + B(bnd[XY_2D])

RECURSIVE first_nodes_loop(_, _, _)
first_nodes_loop(block_nb_nodes(_), block, first) ==
  IF block = nb_blocks THEN first
  ELSE first_nodes_loop(block_nb_nodes, block + 1,
                        first @@ ((block + 1) :> (first[block] + block_nb_nodes(block))))

\* block_first_nodes as the NodeIndices constructors build it.
NodeIndices_block_first_nodes ==
  IF dimensions = 3 THEN first_nodes_loop(NodeIndices3D_nb_nodes, 0, (0 :> 0))
  ELSE first_nodes_loop(NodeIndices2D_nb_nodes, 0, (0 :> 0))

NodeIndices_all_bounded ==
  [block \in DOMAIN block_cells |->
     IF dimensions = 3 THEN NodeIndices3D_bounded(block) ELSE NodeIndices2D_bounded(block)]

FirstNodeAt(b) == NodeIndices_block_first_nodes[b]

\* nodes_dist as the NodeIndices constructors build it.
NodeIndices_nodes_dist == nodes_dist_loop(FirstNodeAt, 0, (0 :> 0))

RECURSIVE NodeIndices2D_global_idx(_, _, _)
NodeIndices2D_global_idx(block, i, j) ==
  LET x_segs == block_subdivisions[block][0]
      y_segs == block_subdivisions[block][1]
      nb_internal_nodes == x_segs * y_segs
      x_adj == adjacent_element(block, 0, 1).second
      y_adj == adjacent_element(block, 1, 1).second
  IN IF i # x_segs /\ j # y_segs
       THEN block_first_nodes[block] + i + j * x_segs
     ELSE IF i = x_segs /\ j # y_segs
       THEN IF ~bounded[block][0]
              THEN block_first_nodes[x_adj] + j * block_subdivisions[x_adj][0]
              ELSE block_first_nodes[block] + nb_internal_nodes + j
     ELSE IF i # x_segs /\ j = y_segs
       THEN IF ~bounded[block][1]
              THEN block_first_nodes[y_adj] + i
              ELSE block_first_nodes[block] + nb_internal_nodes
                     + B(bounded[block][0]) * y_segs + i
     ELSE IF ~bounded[block][XY_2D]
       THEN IF ~bounded[block][0] THEN NodeIndices2D_global_idx(x_adj, 0, j)
            ELSE IF ~bounded[block][1] THEN NodeIndices2D_global_idx(y_adj, i, 0)
            ELSE ShouldNotBeHere
     ELSE block_first_nodes[block] + nb_internal_nodes
            + B(bounded[block][0]) * y_segs + B(bounded[block][1]) * x_segs

RECURSIVE NodeIndices3D_global_idx(_, _, _, _)
NodeIndices3D_global_idx(block, i, j, k) ==
  LET x_segs == block_subdivisions[block][0]
      y_segs == block_subdivisions[block][1]
      z_segs == block_subdivisions[block][2]
      nb_internal_nodes == x_segs * y_segs * z_segs
      bnd == bounded[block]
      x_adj == adjacent_element(block, 0, 1).second
      y_adj == adjacent_element(block, 1, 1).second
      z_adj == adjacent_element(block, 2, 1).second
      faces == B(bnd[0]) * y_segs * z_segs + B(bnd[1]) * x_segs * z_segs
                 + B(bnd[2]) * x_segs * y_segs
  IN IF i # x_segs /\ j # y_segs /\ k # z_segs
       THEN block_first_nodes[block] + i + j * x_segs + k * x_segs * y_segs
     ELSE IF i = x_segs /\ j # y_segs /\ k # z_segs        \* XPOS plane
       THEN IF ~bnd[0]
              THEN block_first_nodes[x_adj] + j * block_subdivisions[x_adj][0]
                     + k * block_subdivisions[x_adj][0] * block_subdivisions[x_adj][1]
              ELSE block_first_nodes[block] + nb_internal_nodes + j + k * y_segs
     ELSE IF i # x_segs /\ j = y_segs /\ k # z_segs        \* YPOS plane
       THEN IF ~bnd[1]
              THEN block_first_nodes[y_adj] + i
                     + k * block_subdivisions[y_adj][0] * block_subdivisions[y_adj][1]
              ELSE block_first_nodes[block] + nb_internal_nodes
                     + B(bnd[0]) * y_segs * z_segs + i + k * x_segs
     ELSE IF i # x_segs /\ j # y_segs /\ k = z_segs        \* ZPOS plane
       THEN IF ~bnd[2]
              THEN block_first_nodes[z_adj] + i + j * block_subdivisions[z_adj][0]
              ELSE block_first_nodes[block] + nb_internal_nodes
                     + B(bnd[0]) * y_segs * z_segs + B(bnd[1]) * x_segs * z_segs
                     + i + j * x_segs
     ELSE IF i = x_segs /\ j = y_segs /\ k # z_segs        \* XPOS and YPOS
       THEN IF ~bnd[XY_3D]
              THEN IF ~bnd[0] THEN NodeIndices3D_global_idx(x_adj, 0, j, k)
                   ELSE NodeIndices3D_global_idx(y_adj, i, 0, k)
              ELSE block_first_nodes[block] + nb_internal_nodes + faces + k
     ELSE IF i = x_segs /\ j # y_segs /\ k = z_segs        \* XPOS and ZPOS
       THEN IF ~bnd[XZ]
              THEN IF ~bnd[0] THEN NodeIndices3D_global_idx(x_adj, 0, j, k)
                   ELSE NodeIndices3D_global_idx(z_adj, i, j, 0)
              ELSE block_first_nodes[block] + nb_internal_nodes + faces
                     + B(bnd[XY_3D]) * z_segs + j
     ELSE IF i # x_segs /\ j = y_segs /\ k = z_segs        \* YPOS and ZPOS
       THEN IF ~bnd[YZ]
              THEN IF ~bnd[1] THEN NodeIndices3D_global_idx(y_adj, i, 0, k)
                   ELSE NodeIndices3D_global_idx(z_adj, i, j, 0)
              ELSE block_first_nodes[block] + nb_internal_nodes + faces
                     + B(bnd[XY_3D]) * z_segs + B(bnd[XZ]) * y_segs + i
     ELSE IF ~bnd[XYZ]                                     \* XPOS, YPOS and ZPOS
       THEN IF ~bnd[0] THEN NodeIndices3D_global_idx(x_adj, 0, j, k)
            ELSE IF ~bnd[1] THEN NodeIndices3D_global_idx(y_adj, i, 0, k)
            ELSE IF ~bnd[2] THEN NodeIndices3D_global_idx(z_adj, i, j, 0)
            ELSE ShouldNotBeHere
     ELSE block_first_nodes[block] + nb_internal_nodes + faces
            + B(bnd[XY_3D]) * z_segs + B(bnd[XZ]) * y_segs + B(bnd[YZ]) * x_segs

\* nodes.global_idx(block, i, j[, k]) of build_mesh_2d / build_mesh_3d
NodeIndicesGlobalIdx(block, idx) ==
  IF dimensions = 3 THEN NodeIndices3D_global_idx(block, idx[0], idx[1], idx[2])
  ELSE NodeIndices2D_global_idx(block, idx[0], idx[1])

\* The global id the generator in use gives the structured index idx of a block.
GlobalIdx(block, idx) ==
  IF generator = "BlockArrays" THEN BlockArraysGlobalIdx(block, idx)
  ELSE NodeIndicesGlobalIdx(block, idx)

----------------------------------------------------------------------------
(* Local node ids and ghosts *)

\* A to_local that counts every request for a gid outside the local range
\* as a new ghost.
to_local_counting(st, gid) ==
  IF ULe(local_nodes_begin, gid) /\ ULt(gid, local_nodes_end)
    THEN [lid |-> gid - local_nodes_begin,
          ghost_counter |-> st.ghost_counter,
          global_to_local |-> st.global_to_local]
    ELSE LET lid == local_nodes_end - local_nodes_begin + st.ghost_counter
             stored == IF gid \in DOMAIN st.global_to_local THEN st.global_to_local
                       ELSE st.global_to_local @@ (gid :> lid)
         IN [lid |-> stored[gid],
             ghost_counter |-> st.ghost_counter + 1,
             global_to_local |-> stored]

\* BlockArrays::Implementation::to_local: st holds ghost_counter and
\* global_to_local; the result holds them after the call and the id returned.
to_local(st, gid) ==
  IF ULe(local_nodes_begin, gid) /\ ULt(gid, local_nodes_end)
    THEN [lid |-> gid - local_nodes_begin,
          ghost_counter |-> st.ghost_counter,
          global_to_local |-> st.global_to_local]
    ELSE LET lid == local_nodes_end - local_nodes_begin + st.ghost_counter
             second == gid \notin DOMAIN st.global_to_local
             stored == IF second THEN st.global_to_local @@ (gid :> lid)
                       ELSE st.global_to_local
         IN [lid |-> stored[gid],
             ghost_counter |-> IF second THEN st.ghost_counter + 1 ELSE st.ghost_counter,
             global_to_local |-> stored]

\* NodeIndices2D::operator() and NodeIndices3D::operator(), after global_idx
\* gave gid.
NodeIndices_local(st, gid) ==
  IF ULe(local_nodes_begin, gid) /\ ULt(gid, local_nodes_end)
    THEN [lid |-> gid - local_nodes_begin,
          ghost_counter |-> st.ghost_counter,
          global_to_local |-> st.global_to_local]
    ELSE LET lid == local_nodes_end - local_nodes_begin + st.ghost_counter
             second == gid \notin DOMAIN st.global_to_local
             stored == IF second THEN st.global_to_local @@ (gid :> lid)
                       ELSE st.global_to_local
         IN [lid |-> stored[gid],
             ghost_counter |-> IF second THEN st.ghost_counter + 1 ELSE st.ghost_counter,
             global_to_local |-> stored]

\* The id the generator in use gives gid: BlockArrays asks to_local,
\* build_mesh asks NodeIndices.
ToLocal(st, gid) ==
  IF generator = "BlockArrays" THEN to_local(st, gid) ELSE NodeIndices_local(st, gid)

\* The state after a request for gid that returned r, the request appended
\* to st.calls.
Requested(st, gid, r) ==
  [lid |-> r.lid,
   st |-> [st EXCEPT !.ghost_counter = r.ghost_counter,
                     !.global_to_local = r.global_to_local,
                     !.calls = Append(@, [gid |-> gid, lid |-> r.lid,
                                          counter_before |-> st.ghost_counter,
                                          map_before |-> st.global_to_local,
                                          counter_after |-> r.ghost_counter,
                                          map_after |-> r.global_to_local])]]

LocalOfGid(st, gid) == Requested(st, gid, ToLocal(st, gid))

\* The local id of a structured index of a block, as the generator in use
\* requests it.
LocalIdx(st, block, idx) == LocalOfGid(st, GlobalIdx(block, idx))

RECURSIVE LocalRow(_, _, _, _, _)
RECURSIVE LocalRowStore(_, _, _, _, _)
\* One element row: the local ids of the structured indices corners of a
\* block, requested in sequence order; request n is stored in slot slots[n].
LocalRow(st, block, corners, slots, row) ==
  IF Cardinality(DOMAIN row) = Len(corners)
    THEN [st |-> st, row |-> [s \in 1..Len(corners) |-> row[s - 1]]]
    ELSE LocalRowStore(LocalIdx(st, block, corners[Cardinality(DOMAIN row) + 1]),
                       block, corners, slots, row)

\* The id r.lid of request Cardinality(DOMAIN row) + 1 goes into its slot.
LocalRowStore(r, block, corners, slots, row) ==
  LocalRow(r.st, block, corners, slots,
           row @@ (slots[Cardinality(DOMAIN row) + 1] :> r.lid))

\* connectivity[element_idx++] = r.row
StoreRow(st, r) ==
  [r.st EXCEPT !.connectivity = @ @@ (st.element_idx :> r.row),
               !.element_idx = @ + 1]

\* The loop body for one element; an element is given by its block, the
\* structured indices requested and their slots.
AddElement(st, elem) ==
  StoreRow(st, LocalRow(st, elem.block, elem.corners, elem.slots, <<>>))

RECURSIVE Emit(_, _, _)
\* The loop bodies run for the elements elems in sequence, the first of them
\* at element index first.
Emit(st, elems, first) ==
  IF st.element_idx - first = Len(elems) THEN st
  ELSE Emit(AddElement(st, elems[st.element_idx - first + 1]), elems, first)

Idx2(i, j) == (0 :> i) @@ (1 :> j)
Idx3(i, j, k) == (0 :> i) @@ (1 :> j) @@ (2 :> k)

\* The corners of cell (i, j, k) in the order the loop body requests them.
HexaCorners(i, j, k) ==
  <<Idx3(i, j, k), Idx3(i + 1, j, k), Idx3(i + 1, j + 1, k), Idx3(i, j + 1, k),
    Idx3(i, j, k + 1), Idx3(i + 1, j, k + 1), Idx3(i + 1, j + 1, k + 1), Idx3(i, j + 1, k + 1)>>

QuadCorners(i, j) ==
  <<Idx2(i, j), Idx2(i + 1, j), Idx2(i + 1, j + 1), Idx2(i, j + 1)>>

InOrder(n) == [s \in 1..n |-> s - 1]

\* The corners of a cell requested clockwise.
CellCornersClockwise(i, j, k) ==
  IF dimensions = 3
    THEN <<Idx3(i, j, k), Idx3(i, j + 1, k), Idx3(i + 1, j + 1, k), Idx3(i + 1, j, k),
           Idx3(i, j, k + 1), Idx3(i, j + 1, k + 1), Idx3(i + 1, j + 1, k + 1),
           Idx3(i + 1, j, k + 1)>>
    ELSE <<Idx2(i, j), Idx2(i, j + 1), Idx2(i + 1, j + 1), Idx2(i + 1, j)>>

CellCorners(i, j, k) ==
  IF dimensions = 3 THEN HexaCorners(i, j, k) ELSE QuadCorners(i, j)

RECURSIVE add_block_i(_, _, _, _)
\* The loop over i: the cells of one row of a block, in loop order.
add_block_i(block, i, j, k) ==
  IF i = block_subdivisions[block][0] THEN <<>>
  ELSE <<[block |-> block, corners |-> CellCorners(i, j, k), slots |-> InOrder(2 ^ dimensions)]>>
         \o add_block_i(block, i + 1, j, k)

RECURSIVE add_block_j(_, _, _)
add_block_j(block, j, k) ==
  IF j = block_subdivisions[block][1] THEN <<>>
  ELSE add_block_i(block, 0, j, k) \o add_block_j(block, j + 1, k)

RECURSIVE add_block_k(_, _)
add_block_k(block, k) ==
  IF k = block_subdivisions[block][2] THEN <<>>
  ELSE add_block_j(block, 0, k) \o add_block_k(block, k + 1)

\* BlockArrays::Implementation::add_block for one block.
add_block(st, block) ==
  Emit(st, IF dimensions = 3 THEN add_block_k(block, 0) ELSE add_block_j(block, 0, 0),
       st.element_idx)

\* The cell loops of build_mesh_2d / build_mesh_3d for one block: the same
\* loops, the ids coming from NodeIndices (see LocalIdx).
build_mesh_cells(st, block) ==
  Emit(st, IF dimensions = 3 THEN add_block_k(block, 0) ELSE add_block_j(block, 0, 0),
       st.element_idx)

RECURSIVE SumNbElems(_, _, _)
\* Sum of nb_elems(block) over proc_begin <= block < proc_end.
SumNbElems(nb_elems(_), block, proc_end) ==
  IF block = proc_end THEN 0
  ELSE nb_elems(block) + SumNbElems(nb_elems, block + 1, proc_end)

RECURSIVE elements_dist_loop(_, _, _)
elements_dist_loop(nb_elems(_), proc, dist) ==
  IF proc = nb_procs THEN dist
  ELSE elements_dist_loop(nb_elems, proc + 1,
         dist @@ ((proc + 1) :> (dist[proc]
            + SumNbElems(nb_elems, blocks_distribution[proc], blocks_distribution[proc + 1]))))

BlockListNbElems(block) == block_list[block].nb_elems

SubdivisionsNbElems(block) == ProductBelow(block_subdivisions[block], dimensions)

\* elements_dist of BlockArrays::create_mesh.
create_mesh_elements_dist == elements_dist_loop(BlockListNbElems, 0, (0 :> 0))

\* elements_dist of build_mesh_2d / build_mesh_3d.
build_mesh_elements_dist == elements_dist_loop(SubdivisionsNbElems, 0, (0 :> 0))

elements_dist ==
  IF generator = "BlockArrays" THEN create_mesh_elements_dist ELSE build_mesh_elements_dist

----------------------------------------------------------------------------
(* BlockArrays::Implementation: Patch, patch_map, add_patch *)

\* The axes other than fixed_dir, ascending, indexed from 0.
FreeAxes(fixed_dir) ==
  [n \in 0..(dimensions - 2) |-> IF n < fixed_dir THEN n ELSE n + 1]

\* Patch::Patch; block is kept as the index of the block referred to.
Patch(a_block, fixed_dir, idx) ==
  LET free == FreeAxes(fixed_dir)
      segs == [n \in DOMAIN free |-> block_subdivisions[a_block][free[n]]]
  IN [block           |-> a_block,
      fixed_direction |-> fixed_dir,
      fixed_idx       |-> idx,
      segments        |-> segs,
      nb_elems        |-> ProductBelow(segs, dimensions - 1)]

RECURSIVE add_patches_loop(_, _, _)
\* The "Add patches" loops of create_blocks, flattened: step n is block
\* n \div (2 * dimensions), axis i, direction dir (0 negative, 1 positive).
add_patches_loop(n, name, list) ==
  IF n = nb_blocks * dimensions * 2 THEN list
  ELSE LET b == n \div (2 * dimensions)
           i == (n % (2 * dimensions)) \div 2
           dir == n % 2
           adj_elems == adjacent_element(b, i, IF dir = 0 THEN -1 ELSE 1)
           block == NewBlock(b, 0)
       IN add_patches_loop(n + 1, name,
            IF adj_elems.dimensionality = dimensions - 1 /\ adj_elems.name = name
              THEN Append(list, Patch(b, i, dir * (block.nb_points[i] - 1)))
              ELSE list)

PatchNames == {face_patch[f] : f \in DOMAIN face_patch}

\* The names of the patches next to a face of a block.
AdjacentPatchNames ==
  {adjacent_element(b, i, s).name : b \in DOMAIN block_cells, i \in Axes, s \in {-1, 1}}
    \ {"blocks"}

\* patch_map as create_blocks leaves it.
create_blocks_patch_map == [name \in AdjacentPatchNames |-> add_patches_loop(0, name, <<>>)]

\* The structured index Patch::global_idx(i) looks up in its block.
PatchIndex2(patch, i) ==
  LET i2 == IF patch.fixed_idx # 0 THEN i ELSE patch.segments[0] - i
  IN Idx2(IF patch.fixed_direction = 0 THEN patch.fixed_idx ELSE i2,
          IF patch.fixed_direction = 1 THEN patch.fixed_idx ELSE i2)

\* The structured index Patch::global_idx(i, j) looks up in its block.
PatchIndex3(patch, i, j) ==
  LET i2 == IF patch.fixed_direction # 2
              THEN (IF patch.fixed_idx # 0 THEN i ELSE patch.segments[0] - i)
              ELSE (IF patch.fixed_idx # 0 THEN patch.segments[0] - i ELSE i)
  IN CASE patch.fixed_direction = 0 -> Idx3(patch.fixed_idx, i2, j)
       [] patch.fixed_direction = 1 -> Idx3(i2, patch.fixed_idx, j)
       [] patch.fixed_direction = 2 -> Idx3(i2, j, patch.fixed_idx)

\* The nodes of patch element (i, j) in the order add_patch requests them.
PatchCorners(patch, i, j) ==
  IF dimensions = 3
    THEN <<PatchIndex3(patch, i, j), PatchIndex3(patch, i + 1, j),
           PatchIndex3(patch, i + 1, j + 1), PatchIndex3(patch, i, j + 1)>>
    ELSE <<PatchIndex2(patch, i), PatchIndex2(patch, i + 1)>>

RECURSIVE add_patch_j(_, _, _)
\* The loop over j (one pass in 2D): the elements of a patch, in loop order.
add_patch_j(patch, i, j) ==
  IF j = (IF dimensions = 3 THEN patch.segments[1] ELSE 1) THEN <<>>
  ELSE <<[block |-> patch.block, corners |-> PatchCorners(patch, i, j),
          slots |-> InOrder(2 ^ (dimensions - 1))]>>
         \o add_patch_j(patch, i, j + 1)

RECURSIVE add_patch_i(_, _)
add_patch_i(patch, i) ==
  IF i = patch.segments[0] THEN <<>>
  ELSE add_patch_j(patch, i, 0) \o add_patch_i(patch, i + 1)

RECURSIVE add_patch_loop(_, _)
add_patch_loop(patches, n) ==
  IF n > Len(patches) THEN <<>>
  ELSE add_patch_i(patches[n], 0) \o add_patch_loop(patches, n + 1)

\* BlockArrays::Implementation::add_patch(name, patch_elems).
add_patch(st, name) ==
  Emit(st, add_patch_loop(IF name \in DOMAIN patch_map THEN patch_map[name] ELSE <<>>, 1), 0)

----------------------------------------------------------------------------
(* build_mesh_2d / build_mesh_3d: boundary elements *)

RECURSIVE patch_block_loop(_, _, _)
\* The elements of the patch `name` of the block mesh: one per boundary face,
\* each with the block and the face it is adjacent to.
patch_block_loop(n, name, list) ==
  IF n = nb_blocks * dimensions * 2 THEN list
  ELSE LET b == n \div (2 * dimensions)
           i == (n % (2 * dimensions)) \div 2
           dir == n % 2
           adj == adjacent_element(b, i, IF dir = 0 THEN -1 ELSE 1)
       IN patch_block_loop(n + 1, name,
            IF adj.dimensionality = dimensions - 1 /\ adj.name = name
              THEN Append(list, [second |-> b, axis |-> i, positive |-> dir = 1])
              ELSE list)

patch_block(name) == patch_block_loop(0, name, <<>>)

\* The nodes of boundary element (p, q) of a face, in request order: p runs
\* in the inner loop, q in the outer one.
FaceCorners(face, p, q) ==
  LET segments == block_subdivisions[face.second]
      fixed == IF face.positive THEN segments[face.axis] ELSE 0
  IN IF dimensions = 2
       THEN IF face.axis = 0
              THEN <<Idx2(fixed, p), Idx2(fixed, p + 1)>>
              ELSE <<Idx2(p, fixed), Idx2(p + 1, fixed)>>
       ELSE CASE face.axis = 0 ->
                   <<Idx3(fixed, p, q), Idx3(fixed, p, q + 1),
                     Idx3(fixed, p + 1, q + 1), Idx3(fixed, p + 1, q)>>
              [] face.axis = 1 ->
                   <<Idx3(p, fixed, q), Idx3(p, fixed, q + 1),
                     Idx3(p + 1, fixed, q + 1), Idx3(p + 1, fixed, q)>>
              [] face.axis = 2 ->
                   <<Idx3(p, q, fixed), Idx3(p, q + 1, fixed),
                     Idx3(p + 1, q + 1, fixed), Idx3(p + 1, q, fixed)>>

\* The slot of the row each request is stored in.
FaceSlots(face) ==
  IF dimensions = 2
    THEN IF face.positive THEN (1 :> 1) @@ (2 :> 0) ELSE (1 :> 0) @@ (2 :> 1)
    ELSE LET neg == ~face.positive
             first == IF face.axis = 1 THEN (IF neg THEN 3 ELSE 1)
                      ELSE (IF neg THEN 1 ELSE 3)
         IN (1 :> 0) @@ (2 :> first) @@ (3 :> 2) @@ (4 :> 4 - first)

\* Inner and outer loop bounds of a face.
FaceInner(face) ==
  LET segments == block_subdivisions[face.second]
  IN IF face.axis = 0 THEN segments[1] ELSE segments[0]

FaceOuter(face) ==
  LET segments == block_subdivisions[face.second]
  IN IF dimensions = 2 THEN 1
     ELSE IF face.axis = 2 THEN segments[1] ELSE segments[2]

RECURSIVE face_inner_loop(_, _, _)
\* The boundary elements of a face, in loop order.
face_inner_loop(face, p, q) ==
  IF p = FaceInner(face) THEN <<>>
  ELSE <<[block |-> face.second, corners |-> FaceCorners(face, p, q),
          slots |-> FaceSlots(face)]>>
         \o face_inner_loop(face, p + 1, q)

RECURSIVE face_outer_loop(_, _)
face_outer_loop(face, q) ==
  IF q = FaceOuter(face) THEN <<>>
  ELSE face_inner_loop(face, 0, q) \o face_outer_loop(face, q + 1)

RECURSIVE build_mesh_patch_loop(_, _)
\* The loop over patch_idx: faces of blocks of other processes are skipped.
build_mesh_patch_loop(faces, patch_idx) ==
  IF patch_idx > Len(faces) THEN <<>>
  ELSE LET block == faces[patch_idx]
           blocks_begin == blocks_distribution[rank]
           blocks_end == blocks_distribution[rank + 1]
       IN (IF block.second < blocks_begin \/ block.second >= blocks_end THEN <<>>
           ELSE face_outer_loop(block, 0))
            \o build_mesh_patch_loop(faces, patch_idx + 1)

\* The rows of the patch `name`: patch_begin + (position in the loops) is the
\* next free row each time.
build_mesh_patch(st, name) == Emit(st, build_mesh_patch_loop(patch_block(name), 1), 0)

----------------------------------------------------------------------------
(* build_mesh_2d / build_mesh_3d: global ids and ranks of the nodes *)

\* std::lower_bound in place of std::upper_bound: the first position whose
\* entry is not less than global_id.
lower_bound(dist, global_id) ==
  LET not_less == {q \in DOMAIN dist : ULe(global_id, dist[q])}
  IN IF not_less = {} THEN nb_procs + 1
     ELSE CHOOSE q \in not_less : \A o \in not_less : q <= o

\* std::upper_bound(nodes_dist.begin(), nodes_dist.end(), global_id) -
\* nodes_dist.begin(): the first position whose entry is greater than
\* global_id, nb_procs + 1 if there is none.
upper_bound(dist, global_id) ==
  LET greater == {q \in DOMAIN dist : ULt(global_id, dist[q])}
  IN IF greater = {} THEN nb_procs + 1
     ELSE CHOOSE q \in greater : \A o \in greater : q <= o

GhostRank(global_id) == upper_bound(nodes_dist, global_id) - 1

\* gids and ranks after the "Local nodes" and the "Ghosts" loops.
build_mesh_gids ==
  LET nb_nodes_local == local_nodes_end - local_nodes_begin
      ghost_of(l) == CHOOSE g \in DOMAIN global_to_local : global_to_local[g] = l
      ghost_lids == {global_to_local[g] : g \in DOMAIN global_to_local}
  IN [gids |-> [l \in 0..(nb_nodes - 1) |->
                  IF l \in ghost_lids THEN ghost_of(l) ELSE l + local_nodes_begin],
      ranks |-> [l \in 0..(nb_nodes - 1) |->
                  IF l \in ghost_lids THEN GhostRank(ghost_of(l)) ELSE rank]]

----------------------------------------------------------------------------
(* The state machine *)

\* The faces of the blocks that have no block across them.
BoundaryFaces(cells_of) ==
  {f \in (DOMAIN cells_of) \X {0, 1, 2} \X {-1, 1} :
     /\ f[2] < dimensions
     /\ \A b \in DOMAIN cells_of : cells_of[b] # Shift(cells_of[f[1]], f[2], f[3])}

\* A block topology: a shape, one patch for its boundary faces and the
\* segment counts of its lattice lines.
Topology ==
  /\ dimensions \in {2, 3}
  /\ periodic_axes = {}
  /\ \E S \in Shapes(dimensions) :
       /\ block_cells = OrderCells(S)
       /\ face_patch = [f \in BoundaryFaces(OrderCells(S)) |-> "wall"]
       /\ \E sx \in LineSegments(Lines(S, 0), Cardinality(S)),
             sy \in LineSegments(Lines(S, 1), Cardinality(S)),
             sz \in LineSegments(Lines(S, 2), Cardinality(S)) :
            /\ NbCells(S, sx, sy, sz) <= MaxCells
            /\ block_subdivisions =
                 [b \in 0..(Cardinality(S) - 1) |->
                    [d \in 0..(dimensions - 1) |->
                       CASE d = 0 -> sx[OrderCells(S)[b][1]]
                         [] d = 1 -> sy[OrderCells(S)[b][2]]
                         [] d = 2 -> sz[OrderCells(S)[b][3]]]]

\* The mesh to generate is as it was passed in.
MeshUntouched ==
  /\ mesh_regions = {}
  /\ volume_size = 0
  /\ volume_connectivity = <<>>
  /\ nb_nodes = 0
  /\ patch_connectivity = <<>>
  /\ gids = <<>>
  /\ ranks = <<>>
  /\ nb_elements_accumulated = <<>>
  /\ elements_glb_idx = <<>>
  /\ elements_rank = <<>>

\* No helper data of the mesh generators exists.
NoHelperData ==
  /\ block_list = <<>>
  /\ block_first_nodes = <<>>
  /\ bounded = <<>>
  /\ patch_map = <<>>
  /\ nodes_dist = <<>>
  /\ local_nodes_begin = 0
  /\ local_nodes_end = 0
  /\ ghost_counter = 0
  /\ global_to_local = <<>>
  /\ element_idx = 0
  /\ cur_block = 0
  /\ calls = <<>>

\* Nothing of the mesh generators has run; all tables were created.
GenerationIdle ==
  /\ pc = "start"
  /\ tables = TopologyTables
  /\ NoHelperData
  /\ MeshUntouched

\* Nothing of partition_blocks has run.
SweepIdle ==
  /\ blocks_to_partition = <<>>
  /\ blocks_out = <<>>
  /\ block_coordinates = <<>>
  /\ next_block_layer = <<>>
  /\ current_block_layer = <<>>
  /\ start_node_mapping = <<>>
  /\ end_node_mapping = <<>>
  /\ partition = 0
  /\ partition_nb_slices = 0
  /\ nb_partitioned = 0
  /\ layers = <<>>
  /\ undefined = FALSE

\* partition_blocks is not in use.
PartitionerIdle ==
  /\ direction = 0
  /\ nb_partitions = 1
  /\ blocks_in = <<>>
  /\ block_mesh = <<>>
  /\ SweepIdle
  /\ ppc = "start"
  /\ pass = 1
  /\ first_out = <<>>

\* create_mapped_coords is not in use.
MappingIdle ==
  /\ mc_segments = 1
  /\ mc_gradings = <<>>
  /\ mapped_coords = <<>>
  /\ mapped_status = "called"

Init ==
  /\ generator \in {"BlockArrays", "BlockData"}
  /\ Topology
  /\ nb_procs \in 1..MaxProcs
  /\ rank \in 0..(nb_procs - 1)
  /\ blocks_distribution \in Distributions(nb_procs, nb_blocks)
  /\ past_the_end \in (IF generator = "BlockArrays" THEN HeapWords ELSE {0})
  /\ GenerationIdle
  /\ PartitionerIdle
  /\ MappingIdle
  /\ do_assertions = TRUE

\* The ghost state and an empty table, as the loops over a table start.
Emitter(connectivity, first_idx) ==
  [ghost_counter |-> ghost_counter, global_to_local |-> global_to_local,
   connectivity |-> connectivity, element_idx |-> first_idx, calls |-> <<>>]

\* BlockArrays::create_mesh: m_implementation->create_blocks()
CreateBlocks ==
  /\ generator = "BlockArrays"
  /\ pc = "start"
  /\ block_list' = create_blocks
  /\ patch_map' = create_blocks_patch_map
  /\ ghost_counter' = 0
  /\ pc' = "distribute"
  /\ UNCHANGED <<partitioner, mapping, do_assertions, element_ids, input, block_first_nodes, bounded, distribution, global_to_local,
                 cells, output, calls>>

\* BlockArrays::create_mesh: create_nodes_distribution, elements_dist, the
\* region "interior" and the resize of its volume elements
NodesDistributionEffect ==
  /\ nodes_dist' = create_nodes_distribution
  /\ local_nodes_begin' = create_nodes_distribution[rank]
  /\ local_nodes_end' = create_nodes_distribution[rank + 1]
  /\ mesh_regions' = mesh_regions \cup {"interior"}
  /\ volume_size' = create_mesh_elements_dist[rank + 1] - create_mesh_elements_dist[rank]
  /\ element_idx' = 0
  /\ cur_block' = blocks_distribution[rank]
  /\ pc' = "cells"
  /\ UNCHANGED <<partitioner, mapping, do_assertions, element_ids, input, oracle, ghosts,
                 volume_connectivity, nb_nodes, patch_connectivity, gids, ranks, calls>>

\* The step after create_blocks of a run whose block distribution has
\* nb_procs + 1 entries.
CreateNodesDistribution ==
  /\ generator = "BlockArrays"
  /\ pc = "distribute"
  /\ NodesDistributionEffect

\* BlockArrays::create_mesh: one pass of the loop that calls add_block
AddBlock ==
  /\ generator = "BlockArrays"
  /\ pc = "cells"
  /\ cur_block # blocks_distribution[rank + 1]
  /\ \E st \in {add_block(Emitter(volume_connectivity, element_idx), cur_block)} :
        /\ ghost_counter' = st.ghost_counter
        /\ global_to_local' = st.global_to_local
        /\ volume_connectivity' = st.connectivity
        /\ element_idx' = st.element_idx
        /\ calls' = st.calls
  /\ cur_block' = cur_block + 1
  /\ UNCHANGED <<partitioner, mapping, do_assertions, element_ids, input, oracle, distribution, output, pc>>

\* BlockArrays::create_mesh: mesh.initialize_nodes(nb_nodes_local + ghost_counter)
InitializeNodes ==
  /\ generator = "BlockArrays"
  /\ pc = "cells"
  /\ cur_block = blocks_distribution[rank + 1]
  /\ nb_nodes' = (nodes_dist[rank + 1] - nodes_dist[rank]) + ghost_counter
  /\ calls' = <<>>
  /\ pc' = IF PatchNames = {} THEN "done" ELSE "patches"
  /\ UNCHANGED <<partitioner, mapping, do_assertions, element_ids, input, oracle, distribution, ghosts, cells, patch_connectivity, gids, ranks, mesh_regions>>

\* BlockArrays::create_mesh: one pass of the loop that calls add_patch
AddPatch ==
  /\ generator = "BlockArrays"
  /\ pc = "patches"
  /\ \E name \in PatchNames \ DOMAIN patch_connectivity :
       \E st \in {add_patch(Emitter(<<>>, 0), name)} :
          /\ ghost_counter' = st.ghost_counter
          /\ global_to_local' = st.global_to_local
          /\ patch_connectivity' = patch_connectivity @@ (name :> st.connectivity)
          /\ mesh_regions' = mesh_regions \cup {name}
          /\ calls' = st.calls
          /\ pc' = IF PatchNames \ DOMAIN patch_connectivity = {name} THEN "done" ELSE pc
  /\ UNCHANGED <<partitioner, mapping, do_assertions, element_ids, input, oracle, distribution, cells, nb_nodes, gids, ranks>>

\* build_mesh_2d / build_mesh_3d: elements_dist, the NodeIndices constructor
\* and the resize of the volume elements
ConstructNodeIndices ==
  /\ generator = "BlockData"
  /\ pc = "start"
  /\ bounded' = NodeIndices_all_bounded
  /\ block_first_nodes' = NodeIndices_block_first_nodes
  /\ nodes_dist' = NodeIndices_nodes_dist
  /\ local_nodes_begin' = NodeIndices_nodes_dist[rank]
  /\ local_nodes_end' = NodeIndices_nodes_dist[rank + 1]
  /\ ghost_counter' = 0
  /\ mesh_regions' = mesh_regions \cup {"root_region", "volume"}
  /\ volume_size' = build_mesh_elements_dist[rank + 1] - build_mesh_elements_dist[rank]
  /\ element_idx' = 0
  /\ cur_block' = blocks_distribution[rank]
  /\ pc' = "cells"
  /\ UNCHANGED <<partitioner, mapping, do_assertions, element_ids, input, block_list, patch_map, global_to_local, volume_connectivity,
                 nb_nodes, patch_connectivity, gids, ranks, calls>>

\* build_mesh_2d / build_mesh_3d: one pass of the loop over the local blocks
\* that fills the volume connectivity
BuildMeshCells ==
  /\ generator = "BlockData"
  /\ pc = "cells"
  /\ cur_block # blocks_distribution[rank + 1]
  /\ \E st \in {build_mesh_cells(Emitter(volume_connectivity, element_idx), cur_block)} :
        /\ ghost_counter' = st.ghost_counter
        /\ global_to_local' = st.global_to_local
        /\ volume_connectivity' = st.connectivity
        /\ element_idx' = st.element_idx
        /\ calls' = st.calls
  /\ cur_block' = cur_block + 1
  /\ UNCHANGED <<partitioner, mapping, do_assertions, element_ids, input, oracle, distribution, output, pc>>

\* build_mesh_2d / build_mesh_3d: mesh.initialize_nodes(nb_nodes)
BuildMeshInitializeNodes ==
  /\ generator = "BlockData"
  /\ pc = "cells"
  /\ cur_block = blocks_distribution[rank + 1]
  /\ nb_nodes' = (nodes_dist[rank + 1] - nodes_dist[rank]) + ghost_counter
  /\ calls' = <<>>
  /\ pc' = "patches"
  /\ UNCHANGED <<partitioner, mapping, do_assertions, element_ids, input, oracle, distribution, ghosts, cells, patch_connectivity, gids, ranks, mesh_regions>>

\* build_mesh_2d / build_mesh_3d: one pass of the loop over the surface
\* elements of the block mesh
BuildMeshPatch ==
  /\ generator = "BlockData"
  /\ pc = "patches"
  /\ \E name \in PatchNames \ DOMAIN patch_connectivity :
       \E st \in {build_mesh_patch(Emitter(<<>>, 0), name)} :
          /\ ghost_counter' = st.ghost_counter
          /\ global_to_local' = st.global_to_local
          /\ patch_connectivity' = patch_connectivity @@ (name :> st.connectivity)
          /\ mesh_regions' = mesh_regions \cup {name}
          /\ calls' = st.calls
          /\ pc' = IF PatchNames \ DOMAIN patch_connectivity = {name} THEN "gids" ELSE pc
  /\ UNCHANGED <<partitioner, mapping, do_assertions, element_ids, input, oracle, distribution, cells, nb_nodes, gids, ranks>>

\* build_mesh_2d / build_mesh_3d: glb_idx and rank of the nodes, when the
\* parallel environment is active (it is whenever there are several processes)
BuildMeshGids ==
  /\ generator = "BlockData"
  /\ pc = "gids"
  /\ \E is_active \in (IF nb_procs = 1 THEN BOOLEAN ELSE {TRUE}) :
       /\ gids' = IF is_active THEN build_mesh_gids.gids ELSE gids
       /\ ranks' = IF is_active THEN build_mesh_gids.ranks ELSE ranks
  /\ calls' = <<>>
  /\ pc' = "done"
  /\ UNCHANGED <<partitioner, mapping, do_assertions, element_ids, input, oracle, distribution, ghosts, cells, nb_nodes, patch_connectivity, mesh_regions>>

----------------------------------------------------------------------------
(* build_mesh: global ids and ranks of the elements *)

\* The Elements components of the generated mesh in the order they were
\* created: the volume elements, then one component per patch.
RECURSIVE PatchOrder(_)
PatchOrder(names) ==
  IF names = {} THEN <<>>
  ELSE LET first == CHOOSE n \in names : TRUE
       IN <<first>> \o PatchOrder(names \ {first})

MeshElements == <<"interior">> \o PatchOrder(DOMAIN patch_connectivity)

\* elements.size() of a component of the mesh of this process.
ElementsSize(name) ==
  IF name = "interior" THEN volume_size ELSE Cardinality(DOMAIN patch_connectivity[name])

RECURSIVE SumSizes(_, _)
\* Sum of the sizes of the first n components.
SumSizes(size(_), n) ==
  IF n = 0 THEN 0 ELSE SumSizes(size, n - 1) + size(MeshElements[n])

\* mesh_nb_elems: the total number of elements on this rank.
mesh_nb_elems == SumSizes(ElementsSize, Len(MeshElements))

\* The rows build_mesh_2d / build_mesh_3d give the patch `name` on process
\* q: patch_end - patch_begin for each face of a block of q.
PatchSizeAt(name, q) ==
  LET faces == patch_block(name)
      local == {n \in DOMAIN faces :
                  /\ faces[n].second >= blocks_distribution[q]
                  /\ faces[n].second < blocks_distribution[q + 1]}
      rows(n) == FaceInner(faces[n]) * FaceOuter(faces[n])
      nb_rows[n \in 0..Len(faces)] ==
        IF n = 0 THEN 0 ELSE nb_rows[n - 1] + (IF n \in local THEN rows(n) ELSE 0)
  IN nb_rows[Len(faces)]

\* mesh_nb_elems as process q computes it from the same block data: its
\* volume elements and the rows of its patches.
MeshNbElemsAt(q) ==
  LET size(name) ==
        IF name = "interior"
          THEN build_mesh_elements_dist[q + 1] - build_mesh_elements_dist[q]
          ELSE PatchSizeAt(name, q)
  IN SumSizes(size, Len(MeshElements))

\* all_gather(mesh_nb_elems, nb_elements_accumulated): entry q is the value
\* process q sent; without a parallel environment the one entry is the
\* count of this process.
all_gather(is_active) ==
  IF is_active
    THEN [q \in 0..(nb_procs - 1) |-> IF q = rank THEN mesh_nb_elems ELSE MeshNbElemsAt(q)]
    ELSE (0 :> mesh_nb_elems)

\* for(i = 1; i != nb_procs; ++i) nb_elements_accumulated[i] += nb_elements_accumulated[i-1]
Accumulated(gathered) ==
  LET acc[i \in DOMAIN gathered] ==
        IF i = 0 THEN gathered[0] ELSE gathered[i] + acc[i - 1]
  IN [i \in DOMAIN gathered |-> acc[i]]

\* A mutation of element_offset: the sum up to and including this rank.
ElementOffsetThroughRank(acc) == acc[rank]

\* Offset to start with for this rank.
element_offset(acc) == IF rank = 0 THEN 0 ELSE acc[rank - 1]

\* element_offset at the head of pass n (from 1) of the loop over the
\* Elements components.
ComponentOffset(acc, n) == element_offset(acc) + SumSizes(ElementsSize, n - 1)

\* build_mesh after build_mesh_2d / build_mesh_3d returned: the element
\* counts are gathered and summed up, and every Elements component gets
\* the rank and the global ids of its elements.
BuildMeshElementIds ==
  /\ generator = "BlockData"
  /\ pc = "done"
  /\ \E is_active \in (IF nb_procs = 1 THEN BOOLEAN ELSE {TRUE}) :
       \E acc \in {Accumulated(all_gather(is_active))} :
          /\ nb_elements_accumulated' = acc
          /\ elements_rank' =
               [n \in 1..Len(MeshElements) |->
                  [elem \in 0..(ElementsSize(MeshElements[n]) - 1) |-> rank]]
          /\ elements_glb_idx' =
               [n \in 1..Len(MeshElements) |->
                  [elem \in 0..(ElementsSize(MeshElements[n]) - 1) |->
                     elem + ComponentOffset(acc, n)]]
  /\ pc' = "built"
  /\ UNCHANGED <<partitioner, mapping, do_assertions, input, oracle, distribution, ghosts,
                 cells, output, calls>>

Next ==
  \/ CreateBlocks
  \/ CreateNodesDistribution
  \/ AddBlock
  \/ InitializeNodes
  \/ AddPatch
  \/ ConstructNodeIndices
  \/ BuildMeshCells
  \/ BuildMeshInitializeNodes
  \/ BuildMeshPatch
  \/ BuildMeshGids
  \/ BuildMeshElementIds

Spec == Init /\ [][Next]_vars

----------------------------------------------------------------------------
(* Physical nodes *)

\* The structured indices of a block: 0 <= idx[d] <= segments[d].
Indices(block) ==
  {idx \in [Axes -> 0..MaxCells] : \A d \in Axes : idx[d] <= block_subdivisions[block][d]}

RECURSIVE LineOffset(_, _)
\* Number of segments before lattice line l of axis d.
LineOffset(d, l) ==
  IF l = 0 THEN 0
  ELSE LET b == CHOOSE x \in DOMAIN block_cells : block_cells[x][d + 1] = l - 1
       IN LineOffset(d, l - 1) + block_subdivisions[b][d]

\* The physical node a structured index of a block denotes, in segment units.
PhysNode(block, idx) ==
  [d \in Axes |-> LineOffset(d, block_cells[block][d + 1]) + idx[d]]

\* All (block, index) pairs.
AllIndices ==
  {x \in (DOMAIN block_cells) \X [Axes -> 0..MaxCells] : x[2] \in Indices(x[1])}

\* The oracle has just been built and no local id was requested yet.
OracleBuilt == pc = "cells" /\ cur_block = blocks_distribution[rank] /\ calls = <<>>

\* Number of nodes a block owns: segments + 1 along an axis whose positive
\* face is on the boundary, segments otherwise.
OwnedCount(b) ==
  ProductBelow([d \in Axes |-> block_subdivisions[b][d]
                  + (IF adjacent_element(b, d, 1).dimensionality = dimensions THEN 0 ELSE 1)],
               dimensions)

RECURSIVE OwnedBefore(_)
\* Number of nodes owned by the blocks b < n.
OwnedBefore(n) == IF n = 0 THEN 0 ELSE OwnedBefore(n - 1) + OwnedCount(n - 1)

\* C1: in the BlockArrays oracle any two structured indices that denote the
\* same physical node get the same global id.
C1_SameNodeSameGid ==
  (generator = "BlockArrays" /\ OracleBuilt) =>
    \A x \in AllIndices, y \in AllIndices :
      PhysNode(x[1], x[2]) = PhysNode(y[1], y[2])
        => BlockArraysGlobalIdx(x[1], x[2]) = BlockArraysGlobalIdx(y[1], y[2])

\* C2: in the NodeIndices2D / NodeIndices3D oracles any two structured indices
\* that denote the same physical node get the same global_idx.
C2_SameNodeSameGlobalIdx ==
  (generator = "BlockData" /\ OracleBuilt) =>
    \A x \in AllIndices, y \in AllIndices :
      PhysNode(x[1], x[2]) = PhysNode(y[1], y[2])
        => NodeIndicesGlobalIdx(x[1], x[2]) = NodeIndicesGlobalIdx(y[1], y[2])

\* C3: unique ownership: the global ids of all structured indices are
\* exactly 0 .. N-1, N the sum over the blocks of the product of nb_points,
\* and indices that denote different physical nodes get different ids.
C3_UniqueOwnership ==
  OracleBuilt =>
    /\ {GlobalIdx(x[1], x[2]) : x \in AllIndices} = 0..(OwnedBefore(nb_blocks) - 1)
    /\ \A x \in AllIndices, y \in AllIndices :
         PhysNode(x[1], x[2]) # PhysNode(y[1], y[2])
           => GlobalIdx(x[1], x[2]) # GlobalIdx(y[1], y[2])

\* C7: nodes_dist has nb_procs + 1 entries, nodes_dist[p] is the number of
\* nodes owned by the blocks before blocks_distribution[p] for every p in
\* 0 .. nb_procs, and local_nodes_begin / local_nodes_end are
\* nodes_dist[rank] / nodes_dist[rank + 1], in both generators.
C7_NodesDistribution ==
  OracleBuilt =>
    /\ DOMAIN nodes_dist = 0..nb_procs
    /\ \A p \in 0..nb_procs : nodes_dist[p] = OwnedBefore(blocks_distribution[p])
    /\ local_nodes_begin = nodes_dist[rank]
    /\ local_nodes_end = nodes_dist[rank + 1]

----------------------------------------------------------------------------
(* Local ids, ghosts and the node table *)

nb_local == local_nodes_end - local_nodes_begin

\* gid is in [local_nodes_begin, local_nodes_end).
Owned(gid) == ULe(local_nodes_begin, gid) /\ ULt(gid, local_nodes_end)

HasLid(gid) == Owned(gid) \/ gid \in DOMAIN global_to_local

\* The local id a gid has on this rank.
LidOf(gid) == IF Owned(gid) THEN gid - local_nodes_begin ELSE global_to_local[gid]

\* C4: a request for a gid in [local_nodes_begin, local_nodes_end) returns
\* gid - local_nodes_begin and changes nothing; the first request for another
\* gid returns (local_nodes_end - local_nodes_begin) + ghost_counter, adds
\* one to ghost_counter and records the id; every later request for that gid
\* returns the same id and leaves ghost_counter and the ghost map unchanged.
C4_ToLocal ==
  \A n \in DOMAIN calls :
    LET c == calls[n]
    IN /\ IF Owned(c.gid)
            THEN /\ c.lid = c.gid - local_nodes_begin
                 /\ c.counter_after = c.counter_before
                 /\ c.map_after = c.map_before
            ELSE IF c.gid \notin DOMAIN c.map_before
              THEN /\ c.lid = nb_local + c.counter_before
                   /\ c.counter_after = c.counter_before + 1
                   /\ DOMAIN c.map_after = DOMAIN c.map_before \cup {c.gid}
                   /\ c.map_after[c.gid] = c.lid
                   /\ \A g \in DOMAIN c.map_before : c.map_after[g] = c.map_before[g]
              ELSE /\ c.lid = c.map_before[c.gid]
                   /\ c.counter_after = c.counter_before
                   /\ c.map_after = c.map_before
       /\ \A m \in 1..(n - 1) : calls[m].gid = c.gid => calls[m].lid = c.lid

\* A step of BlockArrays that made a request for an owned gid, a first
\* request for a gid that is not owned and a later request for the same gid.
C4_Witness ==
  /\ generator = "BlockArrays"
  /\ \E n \in DOMAIN calls : Owned(calls[n].gid)
  /\ \E m \in DOMAIN calls, n \in DOMAIN calls :
       /\ m < n
       /\ ~Owned(calls[m].gid)
       /\ calls[m].gid \notin DOMAIN calls[m].map_before
       /\ calls[n].gid = calls[m].gid
       /\ calls[n].lid = calls[m].lid

\* C5: the ghost map is injective, its values are exactly the range
\* [nb_local, nb_local + ghost_counter), ghost_counter is the number of its
\* entries and no gid in [local_nodes_begin, local_nodes_end) is a key.
C5_GhostMap ==
  pc \notin {"start", "distribute"} =>
    /\ \A g1 \in DOMAIN global_to_local, g2 \in DOMAIN global_to_local :
         g1 # g2 => global_to_local[g1] # global_to_local[g2]
    /\ \A g \in DOMAIN global_to_local :
         /\ ULe(nb_local, global_to_local[g])
         /\ ULt(global_to_local[g], nb_local + ghost_counter)
    /\ ghost_counter = Cardinality(DOMAIN global_to_local)
    /\ \A g \in DOMAIN global_to_local : ~Owned(g)

\* C6: when the node table is created, it has nb_local + ghost_counter rows
\* and every id in every row of the volume connectivity is in
\* [0, nb_local + ghost_counter).
C6_CellIdsInNodeTable ==
  (pc = "patches" /\ DOMAIN patch_connectivity = {}) =>
    /\ nb_nodes = nb_local + ghost_counter
    /\ \A e \in DOMAIN volume_connectivity :
         \A s \in DOMAIN volume_connectivity[e] :
           /\ ULe(0, volume_connectivity[e][s])
           /\ ULt(volume_connectivity[e][s], nb_local + ghost_counter)

\* C8: after build_mesh_2d / build_mesh_3d filled glb_idx and rank, a local
\* node l < nb_local has gid l + nodes_dist[rank] and rank `rank`; every
\* other node is a ghost of the map, its gid lies outside
\* [nodes_dist[rank], nodes_dist[rank + 1]) and its rank is the only q with
\* nodes_dist[q] <= gid < nodes_dist[q + 1], which is not `rank`.
C8_NodeRanks ==
  (generator = "BlockData" /\ pc = "done" /\ DOMAIN gids # {}) =>
    /\ DOMAIN gids = 0..(nb_nodes - 1)
    /\ DOMAIN ranks = DOMAIN gids
    /\ \A g \in DOMAIN global_to_local : gids[global_to_local[g]] = g
    /\ \A l \in DOMAIN gids :
         IF l < nodes_dist[rank + 1] - nodes_dist[rank]
           THEN gids[l] = l + nodes_dist[rank] /\ ranks[l] = rank
           ELSE /\ gids[l] \in DOMAIN global_to_local
                /\ ~(nodes_dist[rank] <= gids[l] /\ gids[l] < nodes_dist[rank + 1])
                /\ ranks[l] \in 0..(nb_procs - 1)
                /\ ranks[l] # rank
                /\ \A q \in 0..(nb_procs - 1) :
                     (nodes_dist[q] <= gids[l] /\ gids[l] < nodes_dist[q + 1]) <=> q = ranks[l]

\* build_mesh finished on a rank that has a ghost node, while another rank
\* owns no node at all.
C8_Witness ==
  /\ generator = "BlockData"
  /\ pc = "done"
  /\ DOMAIN gids # {}
  /\ DOMAIN global_to_local # {}
  /\ \E q \in 0..(nb_procs - 1) : q # rank /\ nodes_dist[q] = nodes_dist[q + 1]
  /\ \E l \in DOMAIN gids : l < nb_local

----------------------------------------------------------------------------
(* Cells *)

RECURSIVE FirstElement(_)
\* Number of cells of the local blocks before block b.
FirstElement(b) ==
  IF b = blocks_distribution[rank] THEN 0
  ELSE FirstElement(b - 1) + ProductBelow(block_subdivisions[b - 1], dimensions)

\* The cells of a block: (i, j) or (i, j, k) with 0 <= index < segments.
BlockCells(b) ==
  {c \in [Axes -> 0..(MaxCells - 1)] : \A d \in Axes : c[d] < block_subdivisions[b][d]}

\* Position of cell c in the table: i runs fastest, then j, then k.
CellIndex(b, c) ==
  FirstElement(b) + c[0] + block_subdivisions[b][0]
     * (c[1] + block_subdivisions[b][1] * (IF dimensions = 3 THEN c[2] ELSE 0))

\* Offset of corner s of a cell: (0,0), (1,0), (1,1), (0,1), then the same
\* with k + 1.
CornerOffset(s) ==
  LET base == ((s - 1) % 4) + 1
  IN (0 :> (IF base \in {2, 3} THEN 1 ELSE 0))
       @@ (1 :> (IF base \in {3, 4} THEN 1 ELSE 0))
       @@ (2 :> (IF s > 4 THEN 1 ELSE 0))

\* C9: the blocks emitted so far fill the table with the product of their
\* segments cells each, cell (i, j, k) at its i-fastest position holding the
\* local ids of (i,j,k), (i+1,j,k), (i+1,j+1,k), (i,j+1,k) and then of the
\* same four with k + 1 in 3D; after the last local block element_idx is the
\* size the table was resized to.
C9_CellEmission ==
  pc \notin {"start", "distribute"} =>
    /\ element_idx = FirstElement(cur_block)
    /\ DOMAIN volume_connectivity = 0..(FirstElement(cur_block) - 1)
    /\ \A b \in blocks_distribution[rank]..(cur_block - 1) :
         \A c \in BlockCells(b) :
           volume_connectivity[CellIndex(b, c)] =
             [s \in 1..(2 ^ dimensions) |->
                LidOf(GlobalIdx(b, [d \in Axes |-> c[d] + CornerOffset(s)[d]]))]
    /\ cur_block = blocks_distribution[rank + 1] =>
         /\ element_idx = volume_size
         /\ volume_size = elements_dist[rank + 1] - elements_dist[rank]

\* All local blocks were emitted, one of them with two cells along x and
\* two along y or z.
C9_Witness ==
  /\ pc = "patches"
  /\ generator = "BlockArrays"
  /\ cur_block = blocks_distribution[rank + 1]
  /\ element_idx > 0
  /\ \E b \in blocks_distribution[rank]..(cur_block - 1) :
       /\ block_subdivisions[b][0] >= 2
       /\ \E d \in Axes \ {0} : block_subdivisions[b][d] >= 2

----------------------------------------------------------------------------
(* Orientation of the patch elements *)

\* The physical nodes that have local id l on this rank.
NodesOfLid(l) ==
  {PhysNode(x[1], x[2]) :
     x \in {y \in AllIndices : HasLid(GlobalIdx(y[1], y[2]))
                                /\ LidOf(GlobalIdx(y[1], y[2])) = l}}

Abs(x) == IF x < 0 THEN -x ELSE x

\* p is a node of block b that lies on its face f = <<b, d, s>>.
OnFace(f, p) ==
  LET b == f[1]
      low == [a \in Axes |-> LineOffset(a, block_cells[b][a + 1])]
  IN /\ \A a \in Axes : low[a] <= p[a] /\ p[a] <= low[a] + block_subdivisions[b][a]
     /\ p[f[2]] = low[f[2]] + (IF f[3] = 1 THEN block_subdivisions[b][f[2]] ELSE 0)

\* The segment p1 -> p2 is one boundary segment of face f, run counter-
\* clockwise around the block: the block is on its left, so that its normal
\* (dy, -dx) points out of the block.
OutwardLine(f, p1, p2) ==
  LET t == [a \in Axes |-> p2[a] - p1[a]]
      normal == (0 :> t[1]) @@ (1 :> (0 - t[0]))
  IN /\ OnFace(f, p1) /\ OnFace(f, p2)
     /\ Abs(t[0]) + Abs(t[1]) = 1
     /\ normal[f[2]] = f[3]

\* The quad p1 p2 p3 p4 is one boundary quad of face f whose right-hand
\* normal (p2 - p1) x (p4 - p1) points out of the block.
OutwardQuad(f, p1, p2, p3, p4) ==
  LET t1 == [a \in Axes |-> p2[a] - p1[a]]
      t2 == [a \in Axes |-> p4[a] - p1[a]]
      a1 == (f[2] + 1) % 3
      a2 == (f[2] + 2) % 3
  IN /\ OnFace(f, p1) /\ OnFace(f, p2) /\ OnFace(f, p3) /\ OnFace(f, p4)
     /\ Abs(t1[0]) + Abs(t1[1]) + Abs(t1[2]) = 1
     /\ Abs(t2[0]) + Abs(t2[1]) + Abs(t2[2]) = 1
     /\ p3 = [a \in Axes |-> p1[a] + t1[a] + t2[a]]
     /\ t1[a1] * t2[a2] - t1[a2] * t2[a1] = f[3]

\* The row of a patch element is an outward-oriented element of some
\* boundary face.
OutwardRow(row) ==
  \E f \in DOMAIN face_patch :
    IF dimensions = 2
      THEN \E p1 \in NodesOfLid(row[1]), p2 \in NodesOfLid(row[2]) : OutwardLine(f, p1, p2)
      ELSE \E p1 \in NodesOfLid(row[1]), p2 \in NodesOfLid(row[2]),
              p3 \in NodesOfLid(row[3]), p4 \in NodesOfLid(row[4]) :
             OutwardQuad(f, p1, p2, p3, p4)

\* C10: every patch element BlockArrays emits is oriented out of its block:
\* in 3D the right-hand normal of its quad is the outward direction of the
\* face, in 2D its segment runs counter-clockwise around the block.
C10_PatchesOutward ==
  (generator = "BlockArrays" /\ pc = "done") =>
    \A name \in DOMAIN patch_connectivity :
      \A e \in DOMAIN patch_connectivity[name] :
        OutwardRow(patch_connectivity[name][e])


\* C11: every patch element build_mesh_2d / build_mesh_3d emit is oriented
\* out of its block, for every face alike: in 3D the right-hand normal of the
\* quad is the outward direction of the face, in 2D the segment (n0, n1) runs
\* counter-clockwise around the block.
C11_BuildMeshPatchesOutward ==
  (generator = "BlockData" /\ pc \in {"gids", "done"}) =>
    \A name \in DOMAIN patch_connectivity :
      \A e \in DOMAIN patch_connectivity[name] :
        OutwardRow(patch_connectivity[name][e])

----------------------------------------------------------------------------
(* Patch elements and the blocks of the process *)

\* The blocks of this process.
LocalBlocks ==
  {b \in DOMAIN block_cells :
     blocks_distribution[rank] <= b /\ b < blocks_distribution[rank + 1]}

\* The boundary faces in patch name of the blocks in bs.
PatchFaces(name, bs) ==
  {f \in DOMAIN face_patch : face_patch[f] = name /\ f[1] \in bs}

\* The number of elements of face f: the product of the segment counts of
\* its block along the other axes.
FaceNbElems(f) ==
  LET segs == block_subdivisions[f[1]]
      other == [a \in Axes |-> IF a = f[2] THEN 1 ELSE segs[a]]
  IN ProductBelow(other, dimensions)

RECURSIVE SumFaceNbElems(_)
SumFaceNbElems(fs) ==
  IF fs = {} THEN 0
  ELSE LET f == CHOOSE x \in fs : TRUE
       IN FaceNbElems(f) + SumFaceNbElems(fs \ {f})

\* The global ids of the nodes of the blocks of this process.
LocalBlockGids ==
  {GlobalIdx(x[1], x[2]) : x \in {y \in AllIndices : y[1] \in LocalBlocks}}

\* C12: on a rank, a patch holds exactly the elements of the patch faces of
\* the blocks of that rank, and no ghost id is given to a node that belongs
\* to blocks of other ranks only; for BlockArrays::create_mesh and for
\* build_mesh_2d / build_mesh_3d alike.
C12_PatchesOfLocalBlocksOnly ==
  (pc \in {"gids", "done"}) =>
    /\ \A name \in DOMAIN patch_connectivity :
         Cardinality(DOMAIN patch_connectivity[name])
           = SumFaceNbElems(PatchFaces(name, LocalBlocks))
    /\ DOMAIN global_to_local \subseteq LocalBlockGids

----------------------------------------------------------------------------
(* BlockData: points, block corners and patches of a block topology *)

\* t.size() and t.push_back(x) of a table indexed from 0.
Size(t) == Cardinality(DOMAIN t)

PushBack(t, x) == t @@ (Size(t) :> x)

\* Offsets of the nodes of a Quad2D / Hexa3D from node 0, in node order.
ElementNodes ==
  IF dimensions = 2
    THEN <<<<0, 0, 0>>, <<1, 0, 0>>, <<1, 1, 0>>, <<0, 1, 0>>>>
    ELSE <<<<0, 0, 0>>, <<1, 0, 0>>, <<1, 1, 0>>, <<0, 1, 0>>,
           <<0, 0, 1>>, <<1, 0, 1>>, <<1, 1, 1>>, <<0, 1, 1>>>>

\* faces().nodes_range(face) of Quad2D / Hexa3D; a face is <<axis, side>>:
\* <<0, -1>> is XNEG / KSI_NEG, <<1, 1>> is YPOS / ETA_POS, and so on.
FaceNodes(f) ==
  IF dimensions = 2
    THEN CASE f = <<0, -1>> -> <<3, 0>>
           [] f = <<0, 1>>  -> <<1, 2>>
           [] f = <<1, -1>> -> <<0, 1>>
           [] f = <<1, 1>>  -> <<2, 3>>
    ELSE CASE f = <<0, -1>> -> <<0, 4, 7, 3>>
           [] f = <<0, 1>>  -> <<1, 2, 6, 5>>
           [] f = <<1, -1>> -> <<0, 1, 5, 4>>
           [] f = <<1, 1>>  -> <<3, 7, 6, 2>>
           [] f = <<2, -1>> -> <<0, 3, 2, 1>>
           [] f = <<2, 1>>  -> <<4, 5, 6, 7>>

AllFaces == Axes \X {-1, 1}

\* Number of blocks along axis a, when the topology is one row of blocks
\* along a; 0 when it is not.
RowLength(a) ==
  IF \A b \in DOMAIN block_cells : \A d \in Axes : d # a => block_cells[b][d + 1] = 0
    THEN nb_blocks ELSE 0

\* The lattice point of node n of block b.  In a periodic topology (a ring
\* of blocks along axis a) the last lattice line along a is the first one.
Corner(b, n, periodic, a) ==
  LET p == [d \in 1..3 |-> block_cells[b][d] + ElementNodes[n + 1][d]]
  IN IF periodic THEN [p EXCEPT ![a + 1] = @ % RowLength(a)] ELSE p

LatticePoints(periodic, a) ==
  {Corner(b, n, periodic, a) : b \in DOMAIN block_cells, n \in 0..(2 ^ dimensions - 1)}

\* The points of S, numbered along x first, then y, then z.
SortedPoints(S) ==
  [i \in 0..(Cardinality(S) - 1) |->
     CHOOSE p \in S : Cardinality({q \in S : CellKey(q) < CellKey(p)}) = i]

\* The index of lattice point p in the table of points.
PointIndex(p, order) == CHOOSE i \in DOMAIN order : order[i] = p

\* The patch_points entries of a face of a block: its nodes in face order.
RECURSIVE FacePoints(_, _, _)
FacePoints(corners, f, n) ==
  IF n = 0 THEN <<>>
  ELSE PushBack(FacePoints(corners, f, n - 1), corners[FaceNodes(f)[n]])

RECURSIVE Concat(_, _, _)
\* t followed by the entries u[from ..] of a table u.
Concat(t, u, from) ==
  IF from = Size(u) THEN t ELSE Concat(PushBack(t, u[from]), u, from + 1)

\* Number of nodes of a face, which is the number of edges along an axis.
FaceSize == 2 ^ (dimensions - 1)

\* The place of face <<block, axis, side>> in the order block after block.
FaceKey(f) == f[1] * 2 * dimensions + 2 * f[2] + (f[3] + 1) \div 2

\* The place of each face of faces among them, block after block.
FaceRanks(faces) ==
  [f \in faces |-> Cardinality({h \in faces : FaceKey(h) < FaceKey(f)})]

\* The points of the faces, in the order of their places.
RankedPoints(faces, corners, place) ==
  [i \in 0..(FaceSize * Cardinality(faces) - 1) |->
     LET f == CHOOSE g \in faces : place[g] = i \div FaceSize
     IN corners[f[1]][FaceNodes(<<f[2], f[3]>>)[(i % FaceSize) + 1]]]

\* The faces <<block, axis, side>> in faces, block after block, as
\* patch_points lists them.
PatchPointsOf(faces, corners) ==
  CHOOSE t \in {RankedPoints(faces, corners, place) : place \in {FaceRanks(faces)}} : TRUE

\* The corner points of the blocks.
BlockPointsOf(order, periodic, a) ==
  [b \in DOMAIN block_cells |->
     [n \in 0..(2 ^ dimensions - 1) |-> PointIndex(Corner(b, n, periodic, a), order)]]

\* The coordinates of the points, every segment being of length 1.
PointsOf(order) ==
  [i \in DOMAIN order |-> [d \in Axes |-> LineOffset(d, order[i][d + 1])]]

\* The BlockData of points numbered as in order and blocks with the given
\* corner points.
BlockDataFrom(order, corners, periodic, a) ==
  [dimension |-> dimensions,
   points |-> PointsOf(order),
   block_points |-> corners,
   block_subdivisions |-> block_subdivisions,
   block_gradings |-> [b \in DOMAIN block_cells |->
                         [e \in 0..(dimensions * 2 ^ (dimensions - 1) - 1) |-> 1]],
   patch_names |-> [i \in {0} |-> "wall"],
   patch_types |-> [i \in {0} |-> "wall"],
   patch_points |-> [i \in {0} |->
                       CHOOSE t \in {PatchPointsOf(faces, corners) :
                                      faces \in {{f \in DOMAIN face_patch :
                                                    ~(periodic /\ f[2] = a)}}} : TRUE],
   block_distribution |-> <<>>]

\* The BlockDatas that describe the block topology, all edges ungraded and
\* all boundary faces in the patch "wall"; periodic closes a row of blocks
\* along a into a ring, which has no boundary face across a.
BlockDataOf(periodic, a) ==
  {BlockDataFrom(order, corners, periodic, a) :
     <<order, corners>> \in
        {<<o, BlockPointsOf(o, periodic, a)>> :
           o \in {SortedPoints(pts) : pts \in {LatticePoints(periodic, a)}}}}

----------------------------------------------------------------------------
(* detail::create_mapped_coords *)

\* The gradings the model gives an edge: 1 (no grading), 0, and the powers
\* of 2 above 1.
GradingValues == {0, 1, 2, 4, 8}

\* The Real that is not a number, as a value no numerator takes.
NaN == 2 ^ 30

IsNaN(x) == x = NaN

\* The expansion ratio r = pow(grading, 1 / (segs - 1)) is a whole number.
HasRatio(grading, segs) ==
  segs >= 2 /\ \E r \in 2..grading : r ^ (segs - 1) = grading

\* pow(grading, 1 / (segs - 1)) where it is a whole number.
ExpansionRatio(grading, segs) == CHOOSE r \in 2..grading : r ^ (segs - 1) = grading

\* The gradings and segment counts whose mapped coordinates are rational:
\* no grading, grading 0, one segment (the exponent 1 / 0 is infinite) or a
\* whole expansion ratio.
Representable(grading, segs) ==
  grading \in {0, 1} \/ segs = 1 \/ HasRatio(grading, segs)

\* Mapped coordinates are kept as numerators over one denominator: segs, or
\* 1 when segs = 0.
MappedDen(segs) == IF segs = 0 THEN 1 ELSE segs

\* The denominator of the mapped coordinates of an edge: 1 - grading * r
\* with its sign changed for a graded edge, MappedDen for the others.
EdgeDen(grading, segs) ==
  IF ~IsNaN(grading) /\ grading > 1 /\ segs >= 2
    THEN grading * ExpansionRatio(grading, segs) - 1
    ELSE IF ~IsNaN(grading) /\ grading > 1 THEN 1 ELSE MappedDen(segs)

\* mapped_coords[i][edge] as the loops compute it.  With grading 1 (and
\* with a NaN grading, for which fabs(grading - 1.) > 1.e-6 is false) it is
\* i * step - 1 for step = 2 / segs, which is 0 * inf - 1 = NaN when
\* segs = 0.  With grading 0 the expansion ratio r = pow(0, 1 / (segs - 1))
\* is 0, so that 2 * (1 - pow(r, i)) / (1 - grading * r) - 1 is -1 for i = 0
\* and 1 for i > 0.  With a grading above 1 and one segment r is
\* pow(grading, inf) = inf: the result is 0 / -inf - 1 = -1 for i = 0 and
\* -inf / -inf - 1 = NaN for i = 1.
MappedCoord(grading, segs, i) ==
  IF IsNaN(grading) \/ grading = 1
    THEN IF segs = 0 THEN NaN ELSE 2 * i - segs
    ELSE IF grading = 0
      THEN IF i = 0 THEN 0 - MappedDen(segs) ELSE MappedDen(segs)
      ELSE IF segs = 1
        THEN IF i = 0 THEN -1 ELSE NaN
        ELSE 2 * (ExpansionRatio(grading, segs) ^ i - 1) - EdgeDen(grading, segs)

\* The conditions of the cf3_assert calls for one edge: every coordinate
\* within [-1, 1], the first one -1 and the last one 1.
EdgeAssertions(grading, segs) ==
  /\ \A i \in 0..segs :
       /\ ~IsNaN(MappedCoord(grading, segs, i))
       /\ 0 - EdgeDen(grading, segs) <= MappedCoord(grading, segs, i)
       /\ MappedCoord(grading, segs, i) <= EdgeDen(grading, segs)
  /\ ~IsNaN(MappedCoord(grading, segs, 0))
  /\ MappedCoord(grading, segs, 0) = 0 - EdgeDen(grading, segs)
  /\ MappedCoord(grading, segs, segs) = EdgeDen(grading, segs)

\* The first edge at which a checked assertion fails, nb_edges if none does.
FirstFailedEdge(segs, grads, nb_edges) ==
  LET failed == {e \in 0..(nb_edges - 1) : do_assertions /\ ~EdgeAssertions(grads[e], segs)}
  IN IF failed = {} THEN nb_edges
     ELSE CHOOSE e \in failed : \A o \in failed : e <= o

\* create_mapped_coords(segments, gradings, mapped_coords, nb_edges): how it
\* ends, the table after it (resized to zeros, then filled edge by edge up
\* to the edge at which an assertion fails) and the number of edges filled.
create_mapped_coords(segs, grads, nb_edges) ==
  [status |-> IF FirstFailedEdge(segs, grads, nb_edges) = nb_edges
                THEN "returned" ELSE "FailedAssertion",
   den |-> MappedDen(segs),
   dens |-> [edge \in 0..(nb_edges - 1) |-> EdgeDen(grads[edge], segs)],
   edges_filled |-> IF FirstFailedEdge(segs, grads, nb_edges) = nb_edges
                      THEN nb_edges ELSE FirstFailedEdge(segs, grads, nb_edges) + 1,
   table |-> [i \in 0..segs |->
                [edge \in 0..(nb_edges - 1) |->
                   IF edge <= FirstFailedEdge(segs, grads, nb_edges)
                     THEN MappedCoord(grads[edge], segs, i) ELSE 0]]]

----------------------------------------------------------------------------
(* partition_blocks_2d / partition_blocks_3d: the serial block mesh *)

\* The points of face f of block block_idx of blocks_in.
FacePointSet(block_idx, f) ==
  {blocks_in.block_points[block_idx][FaceNodes(f)[n]] : n \in 1..Len(FaceNodes(f))}

\* The faces listed in patch_points[patch_idx], each as the set of its points.
PatchFaceSets(patch_idx) ==
  LET pp == blocks_in.patch_points[patch_idx]
  IN {{pp[FaceSize * e + n] : n \in 0..(FaceSize - 1)} :
        e \in 0..((Size(pp) \div FaceSize) - 1)}

\* The least element of a non-empty set of numbers.
Least(S) == CHOOSE x \in S : \A y \in S : x <= y

\* The faces of the blocks of blocks_in.
BlockFaces == (DOMAIN blocks_in.block_points) \X AllFaces

\* What lies across face x = <<block_idx, f>>, given the point set of every
\* face and the faces every patch lists: the block that has a face with the
\* same points, else the patch that lists the face.
AdjacentElement(x, face_points, patch_faces) ==
  LET across == {y \in BlockFaces : y # x /\ face_points[y] = face_points[x]}
      listed == {p \in DOMAIN patch_faces : face_points[x] \in patch_faces[p]}
  IN IF across # {}
       THEN [dimensionality |-> dimensions, second |-> Least({y[1] : y \in across}),
             patch_idx |-> 0]
       ELSE [dimensionality |-> dimensions - 1, second |-> 0,
             patch_idx |-> IF listed = {} THEN 0 ELSE Least(listed)]

\* The face connectivity of the block mesh create_block_mesh builds from
\* blocks_in.
create_block_mesh ==
  CHOOSE t \in {[x \in BlockFaces |-> AdjacentElement(x, fp[1], fp[2])] :
                  fp \in {<<[y \in BlockFaces |-> FacePointSet(y[1], y[2])],
                            [p \in DOMAIN blocks_in.patch_points |-> PatchFaceSets(p)]>>}} : TRUE

\* volume_to_face_connectivity.adjacent_element(block_idx, f)
volume_to_face_connectivity(block_idx, f) == block_mesh[<<block_idx, f>>]

start_direction == <<direction, -1>>

end_direction == <<direction, 1>>

\* transverse_directions, in the order of the source.
transverse_directions ==
  IF dimensions = 2
    THEN IF direction = 0 THEN <<<<1, -1>>, <<1, 1>>>> ELSE <<<<0, -1>>, <<0, 1>>>>
    ELSE CASE direction = 0 -> <<<<1, -1>>, <<1, 1>>, <<2, -1>>, <<2, 1>>>>
           [] direction = 1 -> <<<<0, -1>>, <<0, 1>>, <<2, -1>>, <<2, 1>>>>
           [] direction = 2 -> <<<<1, -1>>, <<1, 1>>, <<0, -1>>, <<0, 1>>>>

\* transverse_axes (transverse_axe in 2D).
transverse_axes == {d \in Axes : d # direction}

\* The test the loop over the blocks makes for the starting layer.
is_start(block_idx) ==
  /\ volume_to_face_connectivity(block_idx, start_direction).dimensionality = dimensions - 1
  /\ \A n \in 1..Len(transverse_directions) :
       LET transverse_element == volume_to_face_connectivity(block_idx, transverse_directions[n])
       IN \/ transverse_element.dimensionality = dimensions - 1
          \/ volume_to_face_connectivity(transverse_element.second, start_direction).dimensionality
               # dimensions

RECURSIVE starting_layer(_)
\* next_block_layer after the loop over the blocks block_idx < n.
starting_layer(n) ==
  IF n = 0 THEN <<>>
  ELSE IF is_start(n - 1) THEN PushBack(starting_layer(n - 1), n - 1)
       ELSE starting_layer(n - 1)

\* Product of the entries of a row of segment counts over the axes in A.
RECURSIVE ProductOver(_, _)
ProductOver(row, A) ==
  IF A = {} THEN 1
  ELSE LET a == CHOOSE x \in A : TRUE IN row[a] * ProductOver(row, A \ {a})

RECURSIVE global_nb_elements_loop(_)
global_nb_elements_loop(n) ==
  IF n = 0 THEN 0
  ELSE global_nb_elements_loop(n - 1) + ProductOver(blocks_in.block_subdivisions[n - 1], Axes)

global_nb_elements == global_nb_elements_loop(Size(blocks_in.block_points))

\* static_cast<Uint>(ceil(a / b)) for a >= 0 and b > 0.
CeilDiv(a, b) == (a + b - 1) \div b

partition_size == CeilDiv(global_nb_elements, nb_partitions)

RECURSIVE slice_size_loop(_, _)
\* slice_size after the first n blocks of the layer.
slice_size_loop(layer, n) ==
  IF n = 0 THEN 0
  ELSE slice_size_loop(layer, n - 1)
         + ProductOver(blocks_to_partition.block_subdivisions[layer[n - 1]], transverse_axes)

----------------------------------------------------------------------------
(* partition_blocks_2d / partition_blocks_3d: one pass of the while loop *)

\* start_i: the node of the start face on the same edge as node i of the
\* end face (start_face_nodes[i == 0 ? 1 : 0] in 2D).
start_i(i) ==
  IF dimensions = 2 THEN (IF i = 0 THEN 1 ELSE 0)
  ELSE IF i = 0 \/ i = 2 THEN i ELSE (IF i = 3 THEN 1 ELSE 3)

\* grading_idx: the edge of node i of the end face.
grading_idx(i) ==
  IF dimensions = 2 THEN (IF end_direction # <<1, 1>> THEN i ELSE (IF i = 0 THEN 1 ELSE 0))
  ELSE IF end_direction # <<1, 1>> \/ i = 0 \/ i = 3 THEN i ELSE (IF i = 1 THEN 3 ELSE 2)

\* new_blocks as the first loop over the layer leaves it: one entry per
\* block of the layer, in layer order, the nodes of the start face set.
new_blocks_of(layer) ==
  [pos \in DOMAIN layer |->
     [i \in 0..(2 ^ dimensions - 1) |->
        IF \E n \in 1..FaceSize : FaceNodes(start_direction)[n] = i
          THEN start_node_mapping[blocks_in.block_points[layer[pos]][i]]
          ELSE 0]]

\* The locals and the data a pass of the while loop works on.
PassLocals ==
  [node_is_mapped |-> {},
   start_node_mapping |-> start_node_mapping,
   end_node_mapping |-> end_node_mapping,
   points |-> blocks_out.points,
   to_gradings |-> blocks_to_partition.block_gradings,
   to_subdivisions |-> blocks_to_partition.block_subdivisions,
   out_gradings |-> blocks_out.block_gradings,
   out_subdivisions |-> blocks_out.block_subdivisions,
   new_gradings |-> <<>>,
   next_block_layer |-> next_block_layer,
   new_blocks |-> new_blocks_of(current_block_layer),
   block_points |-> blocks_out.block_points,
   patch_points |-> blocks_out.patch_points,
   oob |-> FALSE]

\* a / b for two differences of mapped coordinates.
Ratio(a, b) == IF IsNaN(a) \/ IsNaN(b) \/ b = 0 THEN NaN ELSE a \div b

\* sf_1d * block_nodes: the point at mapped coordinate num / den of the
\* line from a0 to a1.
Line1D(a0, a1, num, den) == (a0 * (den - num) + a1 * (den + num)) \div (2 * den)

\* One pass of the loop over i of the cut: node i of the end face of
\* block_idx gets a new point unless it has one, and the gradings of its
\* edge are adjusted.
CutEdge(w, block_idx, i, mc) ==
  LET original_end_node_idx ==
        blocks_in.block_points[block_idx][FaceNodes(end_direction)[i + 1]]
      original_start_node_idx ==
        blocks_in.block_points[block_idx][FaceNodes(start_direction)[start_i(i) + 1]]
      g == grading_idx(i)
      coords == mc.table
      s == partition_nb_slices
      n == Size(mc.table) - 1
      new_node == [blocks_in.points[original_end_node_idx] EXCEPT
                     ![direction] = Line1D(block_coordinates[original_start_node_idx][direction],
                                           block_coordinates[original_end_node_idx][direction],
                                           coords[s][g], mc.dens[g])]
      e == FaceSize * direction + i
  IN [w EXCEPT
        !.node_is_mapped = @ \cup {original_end_node_idx},
        !.end_node_mapping = IF original_end_node_idx \in w.node_is_mapped THEN @
                             ELSE [@ EXCEPT ![original_end_node_idx] = Size(w.points)],
        !.points = IF original_end_node_idx \in w.node_is_mapped THEN @
                   ELSE PushBack(@, new_node),
        !.start_node_mapping = IF original_end_node_idx \in w.node_is_mapped THEN @
                               ELSE [@ EXCEPT ![original_start_node_idx] = Size(w.points)],
        !.new_gradings = [@ EXCEPT ![e] = Ratio(coords[s][g] - coords[s - 1][g],
                                                coords[1][g] - coords[0][g])],
        !.to_gradings = [@ EXCEPT ![block_idx] =
                           [@ EXCEPT ![e] = Ratio(coords[n][g] - coords[n - 1][g],
                                                  coords[s + 1][g] - coords[s][g])]]]

RECURSIVE CutEdges(_, _, _, _)
CutEdges(w, block_idx, n, mc) ==
  IF n = 0 THEN w ELSE CutEdge(CutEdges(w, block_idx, n - 1, mc), block_idx, n - 1, mc)

\* CutSegments without the subdivisions of the piece appended to the output.
CutSegmentsUnappended(w, block_idx) ==
  [w EXCEPT
     !.out_gradings = PushBack(@, w.new_gradings),
     !.to_subdivisions = [@ EXCEPT ![block_idx] =
                            [@ EXCEPT ![direction] = @ - partition_nb_slices]]]

\* "Adjust number of segments" and "append data to the output".
CutSegments(w, block_idx) ==
  [w EXCEPT
     !.out_gradings = PushBack(@, w.new_gradings),
     !.out_subdivisions = PushBack(@, [w.to_subdivisions[block_idx] EXCEPT
                                         ![direction] = partition_nb_slices]),
     !.to_subdivisions = [@ EXCEPT ![block_idx] =
                            [@ EXCEPT ![direction] = @ - partition_nb_slices]]]

\* The body of the loop over the blocks of the layer when the blocks are
\* cut; block_nb_slices is that of the front block of the layer.
CutBlock(w, block_idx, block_nb_slices) ==
  CutSegments(
    CutEdges([w EXCEPT !.new_gradings = blocks_in.block_gradings[block_idx]],
             block_idx, FaceSize,
             create_mapped_coords(block_nb_slices,
                                  [e \in 0..(FaceSize - 1) |->
                                     w.to_gradings[block_idx][FaceSize * direction + e]],
                                  FaceSize)),
    block_idx)

RECURSIVE CutBlocks(_, _, _)
CutBlocks(w, n, block_nb_slices) ==
  IF n = 0 THEN w
  ELSE CutBlock(CutBlocks(w, n - 1, block_nb_slices), current_block_layer[n - 1],
                block_nb_slices)

RECURSIVE KeepEndNodes(_, _, _)
\* end_node_mapping[original_end_node_idx] = original_end_node_idx
KeepEndNodes(node_mapping, block_idx, n) ==
  IF n = 0 THEN node_mapping
  ELSE [KeepEndNodes(node_mapping, block_idx, n - 1) EXCEPT
          ![blocks_in.block_points[block_idx][FaceNodes(end_direction)[n]]] =
             blocks_in.block_points[block_idx][FaceNodes(end_direction)[n]]]

\* The body of the loop over the blocks of the layer when they fit.
FitBlock(w, block_idx) ==
  [w EXCEPT
     !.out_gradings = PushBack(@, w.to_gradings[block_idx]),
     !.out_subdivisions = PushBack(@, w.to_subdivisions[block_idx]),
     !.end_node_mapping = KeepEndNodes(@, block_idx, FaceSize),
     !.next_block_layer =
        IF volume_to_face_connectivity(block_idx, start_direction).dimensionality = dimensions
          THEN PushBack(@, volume_to_face_connectivity(block_idx, start_direction).second)
          ELSE @]

RECURSIVE FitBlocks(_, _)
FitBlocks(w, n) ==
  IF n = 0 THEN w ELSE FitBlock(FitBlocks(w, n - 1), current_block_layer[n - 1])

\* v contains x (std::count).
Count(v, x) == \E n \in DOMAIN v : v[n] = x

RECURSIVE grow_layer(_, _, _)
\* "grow the next layer": step n looks across transverse direction
\* n % Len(transverse_directions) of entry n \div Len(transverse_directions);
\* the loop runs over the entries the layer has when it starts.
grow_layer(layer, n, last) ==
  IF n = last THEN layer
  ELSE LET transverse_block ==
             volume_to_face_connectivity(layer[n \div Len(transverse_directions)],
                                         transverse_directions[(n % Len(transverse_directions)) + 1])
       IN grow_layer(IF transverse_block.dimensionality = dimensions
                        /\ ~Count(layer, transverse_block.second)
                       THEN PushBack(layer, transverse_block.second) ELSE layer,
                     n + 1, last)

\* The else branch: the blocks fit entirely into the partition.
FitLayer(w) ==
  [w EXCEPT !.next_block_layer =
              grow_layer(@, 0, Size(@) * Len(transverse_directions))]

RECURSIVE SetEndNodes(_, _, _)
\* new_blocks[block_idx][i] = end_node_mapping[blocks_in.block_points[block_idx][i]]
SetEndNodes(new_block, w, block_idx_n) ==
  IF block_idx_n[2] = 0 THEN new_block
  ELSE [SetEndNodes(new_block, w, <<block_idx_n[1], block_idx_n[2] - 1>>) EXCEPT
          ![FaceNodes(end_direction)[block_idx_n[2]]] =
             w.end_node_mapping[blocks_in.block_points[block_idx_n[1]]
                                  [FaceNodes(end_direction)[block_idx_n[2]]]]]

RECURSIVE AddNewPatches(_, _, _, _)
\* "Add new patches": the transverse faces of block_idx that lie on a patch.
AddNewPatches(patch_points, new_block, block_idx, n) ==
  IF n = 0 THEN patch_points
  ELSE LET adjacent == volume_to_face_connectivity(block_idx, transverse_directions[n])
           before == AddNewPatches(patch_points, new_block, block_idx, n - 1)
       IN IF adjacent.dimensionality = dimensions - 1
            THEN [before EXCEPT ![adjacent.patch_idx] =
                    Concat(@, FacePoints(new_block, transverse_directions[n], FaceSize), 0)]
            ELSE before

\* new_blocks[block_idx] after its end nodes are set; new_blocks has one
\* entry per block of the layer, so that an index past them reads what
\* lies behind the vector: word stands for every entry read there.
NewBlockAt(w, block_idx, word) ==
  IF block_idx \in DOMAIN w.new_blocks
    THEN SetEndNodes(w.new_blocks[block_idx], w, <<block_idx, FaceSize>>)
    ELSE [i \in 0..(2 ^ dimensions - 1) |-> word]

\* The body of the last loop over the blocks of the layer.
EmitBlock(w, block_idx, word) ==
  [w EXCEPT
     !.new_blocks = IF block_idx \in DOMAIN w.new_blocks
                      THEN [@ EXCEPT ![block_idx] = NewBlockAt(w, block_idx, word)]
                      ELSE @,
     !.oob = @ \/ block_idx \notin DOMAIN w.new_blocks,
     !.block_points = PushBack(@, NewBlockAt(w, block_idx, word)),
     !.patch_points = AddNewPatches(@, NewBlockAt(w, block_idx, word), block_idx,
                                    Len(transverse_directions))]

RECURSIVE EmitBlocks(_, _, _)
EmitBlocks(w, n, word) ==
  IF n = 0 THEN w
  ELSE EmitBlock(EmitBlocks(w, n - 1, word), current_block_layer[n - 1], word)

\* block_nb_slices > partition_nb_slices
IsCut(block_nb_slices) == ULt(partition_nb_slices, block_nb_slices)

\* One pass of the while loop, given block_nb_slices and the word read
\* behind new_blocks.
while_pass(block_nb_slices, word) ==
  EmitBlocks(IF IsCut(block_nb_slices)
               THEN CutBlocks(PassLocals, Size(current_block_layer), block_nb_slices)
               ELSE FitLayer(FitBlocks([PassLocals EXCEPT !.next_block_layer = <<>>],
                                       Size(current_block_layer))),
             Size(current_block_layer), word)

----------------------------------------------------------------------------
(* partition_blocks as a state machine *)

\* A call partition_blocks(blocks_in, nb_partitions, direction, blocks_out)
\* to come, on the BlockData of a block topology.
PartitionInit ==
  /\ generator = "partition_blocks"
  /\ Topology
  /\ nb_procs = 1
  /\ rank = 0
  /\ blocks_distribution = (0 :> 0 @@ 1 :> nb_blocks)
  /\ past_the_end = 0
  /\ GenerationIdle /\ MappingIdle
  /\ direction \in Axes
  /\ nb_partitions \in 1..MaxProcs
  /\ do_assertions \in BOOLEAN
  /\ blocks_in = <<>>
  /\ block_mesh = <<>>
  /\ SweepIdle
  /\ ppc = "input"
  /\ pass = 1
  /\ first_out = <<>>

\* The identity mapping of the nodes of blocks_in.
IdentityMapping == [node_idx \in DOMAIN blocks_in.points |-> node_idx]

\* The caller fills blocks_in with the block topology, or with the ring
\* that a row of blocks along the direction closes into.
FillBlockData ==
  /\ ppc = "input"
  /\ \E periodic \in {p \in BOOLEAN : p => RowLength(direction) >= 2} :
       blocks_in' \in BlockDataOf(periodic, direction)
  /\ ppc' = "start"
  /\ UNCHANGED <<generation, mapping, do_assertions, partition_input, block_mesh, blocks_out,
                 sweep, pass, first_out, layers, undefined>>

\* "Create a mesh for the serial blocks"
CreateBlockMesh ==
  /\ ppc = "start"
  /\ block_mesh' = create_block_mesh
  /\ ppc' = "mesh"
  /\ UNCHANGED <<generation, mapping, do_assertions, partition_input, blocks_in, blocks_out,
                 sweep, pass, first_out, layers, undefined>>

\* Everything from there to the loop over the partitions: the starting
\* layer, the copy to partition, the cleared output and the node mappings.
StartPartition ==
  /\ ppc = "mesh"
  /\ next_block_layer' = starting_layer(Size(blocks_in.block_points))
  /\ blocks_to_partition' = blocks_in
  /\ blocks_out' = [blocks_in EXCEPT
                      !.block_gradings = <<>>,
                      !.block_points = <<>>,
                      !.block_subdivisions = <<>>,
                      !.patch_points = [p \in DOMAIN blocks_in.patch_points |-> <<>>],
                      !.block_distribution = <<>>]
  /\ block_coordinates' = blocks_in.points
  /\ start_node_mapping' = IdentityMapping
  /\ end_node_mapping' = IdentityMapping
  /\ partition' = 0
  /\ nb_partitioned' = 0
  /\ partition_nb_slices' = 0
  /\ ppc' = "partition"
  /\ UNCHANGED <<generation, mapping, do_assertions, partition_input, blocks_in, block_mesh,
                 current_block_layer, pass, first_out, layers, undefined>>

\* Whether the partition overshoots the number of elements.
Overshoots(slice_size) ==
  nb_partitioned + CeilDiv(partition_size, slice_size) * slice_size > global_nb_elements

\* partition_nb_slices for a layer of slice_size > 0.
nb_slices(slice_size) ==
  IF Overshoots(slice_size)
    THEN (global_nb_elements - nb_partitioned) \div slice_size
    ELSE CeilDiv(partition_size, slice_size)

\* The conditions of the cf3_assert calls at the head of a partition.
HeadAssertions(slice_size) ==
  /\ slice_size # 0
  /\ Overshoots(slice_size) =>
       /\ partition = nb_partitions - 1
       /\ (global_nb_elements - nb_partitioned) % slice_size = 0

\* The head of the loop over the partitions, up to the while loop.  With
\* slice_size = 0 and assertions off, partition_size / 0.0 is infinite and
\* its cast to Uint is undefined: any word.
BeginPartition ==
  /\ ppc = "partition"
  /\ partition # nb_partitions
  /\ blocks_out' = [blocks_out EXCEPT
                      !.block_distribution = PushBack(@, Size(blocks_out.block_points))]
  /\ current_block_layer' = next_block_layer
  /\ \E slice_size \in {slice_size_loop(next_block_layer, Size(next_block_layer))} :
       \/ /\ do_assertions
          /\ ~HeadAssertions(slice_size)
          /\ ppc' = "FailedAssertion"
          /\ UNCHANGED <<partition_nb_slices, nb_partitioned, partition, undefined>>
       \/ /\ ~do_assertions
          /\ slice_size = 0
          /\ \E word \in HeapWords :
               /\ partition_nb_slices' = word
               /\ ppc' = IF word = 0 THEN "partition" ELSE "layer"
               /\ partition' = IF word = 0 THEN partition + 1 ELSE partition
          /\ undefined' = TRUE
          /\ UNCHANGED nb_partitioned
       \/ /\ slice_size # 0
          /\ do_assertions => HeadAssertions(slice_size)
          /\ partition_nb_slices' = nb_slices(slice_size)
          /\ nb_partitioned' = nb_partitioned + nb_slices(slice_size) * slice_size
          /\ ppc' = IF nb_slices(slice_size) = 0 THEN "partition" ELSE "layer"
          /\ partition' = IF nb_slices(slice_size) = 0 THEN partition + 1 ELSE partition
          /\ UNCHANGED undefined
  /\ UNCHANGED <<generation, mapping, do_assertions, partition_input, blocks_in, block_mesh,
                 blocks_to_partition, block_coordinates, next_block_layer,
                 start_node_mapping, end_node_mapping, pass, first_out, layers>>

\* "Adjust coordinates of the block mesh"
AdjustedCoordinates(w) ==
  [i \in DOMAIN block_coordinates |-> w.points[w.start_node_mapping[i]]]

\* partition_nb_slices after a pass.
RemainingSlices(block_nb_slices) ==
  IF IsCut(block_nb_slices) THEN 0 ELSE partition_nb_slices - block_nb_slices

\* What a pass leaves behind, w being the outcome of while_pass.
PassEffect(w, block_nb_slices) ==
  /\ blocks_out' = [blocks_out EXCEPT
                      !.points = w.points,
                      !.block_gradings = w.out_gradings,
                      !.block_subdivisions = w.out_subdivisions,
                      !.block_points = w.block_points,
                      !.patch_points = w.patch_points]
  /\ blocks_to_partition' = [blocks_to_partition EXCEPT
                               !.block_gradings = w.to_gradings,
                               !.block_subdivisions = w.to_subdivisions]
  /\ block_coordinates' = IF IsCut(block_nb_slices) THEN AdjustedCoordinates(w)
                          ELSE block_coordinates
  /\ next_block_layer' = w.next_block_layer
  /\ start_node_mapping' = w.start_node_mapping
  /\ end_node_mapping' = w.end_node_mapping
  /\ partition_nb_slices' = RemainingSlices(block_nb_slices)
  /\ partition' = IF RemainingSlices(block_nb_slices) = 0 THEN partition + 1 ELSE partition
  /\ ppc' = IF RemainingSlices(block_nb_slices) = 0 THEN "partition" ELSE "layer"
  /\ layers' = IF Size(current_block_layer) = 0 THEN layers
               ELSE Append(layers, [pass |-> pass, partition |-> partition,
                                    layer |-> current_block_layer,
                                    cut |-> IsCut(block_nb_slices),
                                    slices |-> IF IsCut(block_nb_slices)
                                                 THEN partition_nb_slices
                                                 ELSE block_nb_slices])

\* The values block_nb_slices can take: that of the front block of the
\* layer; current_block_layer.front() of an empty layer reads any word.
FrontSlices ==
  IF Size(current_block_layer) = 0 THEN HeapWords
  ELSE {blocks_to_partition.block_subdivisions[current_block_layer[0]][direction]}

\* One pass of the while loop.  Reading the front of an empty layer and
\* indexing new_blocks past its end are undefined: the run stops there or
\* carries on with the words it found.
Layer ==
  /\ ppc = "layer"
  /\ \E block_nb_slices \in FrontSlices, word \in HeapWords :
       \E w \in {while_pass(block_nb_slices, word)} :
          \/ /\ Size(current_block_layer) = 0 \/ w.oob
             /\ ppc' = "crashed"
             /\ undefined' = TRUE
             /\ UNCHANGED <<blocks_out, sweep, layers>>
          \/ /\ PassEffect(w, block_nb_slices)
             /\ undefined' = (undefined \/ Size(current_block_layer) = 0 \/ w.oob)
             /\ UNCHANGED current_block_layer
  /\ UNCHANGED <<generation, mapping, do_assertions, partition_input, blocks_in, block_mesh,
                 nb_partitioned, pass, first_out>>

RECURSIVE AddLengthwisePatches(_, _)
\* "Preserve original start and end patches": step n is about face
\* n % 2 (start, then end) of block n \div 2.
AddLengthwisePatches(patch_points, n) ==
  IF n = 0 THEN patch_points
  ELSE LET block_idx == (n - 1) \div 2
           lengthwise_direction == IF (n - 1) % 2 = 0 THEN start_direction ELSE end_direction
           adjacent == volume_to_face_connectivity(block_idx, lengthwise_direction)
           before == AddLengthwisePatches(patch_points, n - 1)
       IN IF adjacent.dimensionality = dimensions - 1
            THEN [before EXCEPT ![adjacent.patch_idx] =
                    Concat(@, FacePoints(blocks_in.block_points[block_idx],
                                         lengthwise_direction, FaceSize), 0)]
            ELSE before

\* After the last partition: the end of the distribution and the patches
\* of the start and end faces.
FinishPartition ==
  /\ ppc = "partition"
  /\ partition = nb_partitions
  /\ blocks_out' = [blocks_out EXCEPT
                      !.block_distribution = PushBack(@, Size(blocks_out.block_points)),
                      !.patch_points = AddLengthwisePatches(@, 2 * Size(blocks_in.block_points))]
  /\ ppc' = "done"
  /\ UNCHANGED <<generation, mapping, do_assertions, partition_input, blocks_in, block_mesh, sweep,
                 pass, first_out, layers, undefined>>

\* partition_blocks called a second time, on its own output.
PartitionAgain ==
  /\ ppc = "done"
  /\ pass = 1
  /\ nb_partitions = 1
  /\ ~undefined
  /\ first_out' = blocks_out
  /\ blocks_in' = blocks_out
  /\ pass' = 2
  /\ ppc' = "start"
  /\ UNCHANGED <<generation, mapping, do_assertions, partition_input, block_mesh, blocks_out,
                 sweep, layers, undefined>>

PartitionNext ==
  \/ FillBlockData
  \/ CreateBlockMesh
  \/ StartPartition
  \/ BeginPartition
  \/ Layer
  \/ FinishPartition
  \/ PartitionAgain

PartitionSpec == PartitionInit /\ [][PartitionNext]_vars

----------------------------------------------------------------------------
(* Properties of partition_blocks *)

\* The run of partition_blocks has ended, one way or another.
PartitionEnded == ppc \in {"done", "FailedAssertion", "crashed"}

\* Number of elements of output block b.
OutNbElems(b) == ProductOver(blocks_out.block_subdivisions[b], Axes)

RECURSIVE OutNbElemsBelow(_)
\* Number of elements of the output blocks 0 .. n - 1.
OutNbElemsBelow(n) == IF n = 0 THEN 0 ELSE OutNbElemsBelow(n - 1) + OutNbElems(n - 1)

\* Number of elements of partition p: those of the output blocks
\* block_distribution[p] .. block_distribution[p + 1] - 1.
PartitionNbElems(p) ==
  OutNbElemsBelow(blocks_out.block_distribution[p + 1])
    - OutNbElemsBelow(blocks_out.block_distribution[p])

\* The input is a row of blocks along the direction, with a boundary at
\* both ends.
IsStrip ==
  /\ RowLength(direction) = Size(blocks_in.block_points)
  /\ \E block_idx \in DOMAIN blocks_in.block_points :
       block_mesh[<<block_idx, start_direction>>].dimensionality = dimensions - 1

\* Size of a slice of a strip.
StripSliceSize == ProductOver(blocks_in.block_subdivisions[0], transverse_axes)

\* C13: partition_blocks balances the partitions.  On a strip of blocks
\* whose number of elements is a multiple of nb_partitions and whose
\* partition size is a whole number of slices, the run returns and every
\* partition has exactly partition_size elements.
C13_BalancedPartitions ==
  (/\ pass = 1
   /\ PartitionEnded
   /\ IsStrip
   /\ global_nb_elements % nb_partitions = 0
   /\ partition_size % StripSliceSize = 0) =>
     /\ ppc = "done"
     /\ ~undefined
     /\ \A p \in 0..(nb_partitions - 1) : PartitionNbElems(p) = partition_size

\* C14: after partition_blocks, block_distribution has nb_partitions + 1
\* entries, starts at 0, ends at the number of output blocks and never
\* decreases, and block_points, block_subdivisions and block_gradings all
\* have that number of entries.
C14_DistributionCoversOutput ==
  (ppc = "done") =>
     /\ Size(blocks_out.block_distribution) = nb_partitions + 1
     /\ blocks_out.block_distribution[0] = 0
     /\ blocks_out.block_distribution[nb_partitions] = Size(blocks_out.block_points)
     /\ \A p \in 0..(nb_partitions - 1) :
          blocks_out.block_distribution[p] <= blocks_out.block_distribution[p + 1]
     /\ Size(blocks_out.block_subdivisions) = Size(blocks_out.block_points)
     /\ Size(blocks_out.block_gradings) = Size(blocks_out.block_points)

\* A run on several blocks returned, without undefined behaviour, blocks
\* in several partitions, some of them cut.
C14_Witness ==
  /\ ppc = "done"
  /\ ~undefined
  /\ nb_partitions >= 2
  /\ Size(blocks_in.block_points) >= 2
  /\ \E k \in DOMAIN layers : layers[k].cut
  /\ blocks_out.block_distribution[1] >= 1
  /\ Size(blocks_out.block_points) > blocks_out.block_distribution[1]

\* The blocks of a layer.
LayerBlocks(layer) == {layer[n] : n \in DOMAIN layer}

\* The blocks across the end face of the blocks in Bs.
AcrossEndFace(Bs) ==
  {block_mesh[<<b, end_direction>>].second :
     b \in {x \in Bs : block_mesh[<<x, end_direction>>].dimensionality = dimensions}}

\* Bs and the blocks across a transverse face of a block in Bs.
GrownOnce(Bs) ==
  Bs \cup {block_mesh[<<b, transverse_directions[n]>>].second :
            <<b, n>> \in {x \in Bs \X (1..Len(transverse_directions)) :
               block_mesh[<<x[1], transverse_directions[x[2]]>>].dimensionality = dimensions}}

RECURSIVE Grown(_)
\* Bs extended by transverse neighbours.
Grown(Bs) == IF GrownOnce(Bs) = Bs THEN Bs ELSE Grown(GrownOnce(Bs))

\* C15: once a layer has been consumed entirely, the next layer processed
\* is made of the blocks across the end face of its blocks, extended by
\* their transverse neighbours, and no layer is consumed twice.
C15_NextLayerAcrossEndFace ==
  \A k \in DOMAIN layers : \A j \in DOMAIN layers :
     /\ (j = k + 1 /\ layers[k].pass = layers[j].pass /\ ~layers[k].cut) =>
          LayerBlocks(layers[j].layer) = Grown(AcrossEndFace(LayerBlocks(layers[k].layer)))
     /\ (j # k /\ layers[k].pass = layers[j].pass /\ ~layers[k].cut /\ ~layers[j].cut) =>
          layers[j].layer # layers[k].layer

RECURSIVE PiecesSum(_, _)
\* Sum of the slices of the pieces of input block block_idx written in the
\* passes 1 .. k of the first run.
PiecesSum(block_idx, k) ==
  IF k = 0 THEN 0
  ELSE PiecesSum(block_idx, k - 1)
         + (IF layers[k].pass = 1 /\ block_idx \in LayerBlocks(layers[k].layer)
              THEN layers[k].slices ELSE 0)

\* C16: partitioning conserves cells.  When the run returns, the slices of
\* the pieces of every input block add up to its slices, and the output
\* has as many elements as the input.
C16_ConservesCells ==
  (ppc = "done" /\ pass = 1 /\ ~undefined) =>
     /\ \A block_idx \in DOMAIN blocks_in.block_points :
          PiecesSum(block_idx, Len(layers)) = blocks_in.block_subdivisions[block_idx][direction]
     /\ OutNbElemsBelow(Size(blocks_out.block_subdivisions)) = global_nb_elements

\* BlockData::operator== (scaling_factor is not modelled: no run changes it)
BlockDataEq(a, b) ==
  /\ a.dimension = b.dimension
  /\ a.block_distribution = b.block_distribution
  /\ a.block_gradings = b.block_gradings
  /\ a.block_points = b.block_points
  /\ a.block_subdivisions = b.block_subdivisions
  /\ a.patch_names = b.patch_names
  /\ a.patch_points = b.patch_points
  /\ a.patch_types = b.patch_types
  /\ a.points = b.points

\* C17: partition_blocks with one partition, applied to its own output,
\* returns a BlockData equal to that output.
C17_Idempotent ==
  (pass = 2 /\ PartitionEnded) =>
     /\ ppc = "done"
     /\ ~undefined
     /\ BlockDataEq(blocks_out, first_out)

\* No block qualifies for the starting layer.
NoStartingLayer ==
  /\ ppc \notin {"input", "start"}
  /\ starting_layer(Size(blocks_in.block_points)) = <<>>

\* C18: without a starting layer partition_blocks fails with
\* InvalidPartition: it yields no output and never reads the front of an
\* empty layer.
C18_NoStartingLayerFails ==
  NoStartingLayer =>
     /\ ppc \in {"mesh", "partition", "InvalidPartition"}
     /\ partition = 0
     /\ ~undefined

----------------------------------------------------------------------------
(* The block distribution on entry of the mesh generators *)

\* A run of a generator on a block distribution made for any number of
\* processes, or on an empty one.
DistributionInit ==
  /\ generator \in {"BlockArrays", "BlockData"}
  /\ Topology
  /\ nb_procs \in 1..MaxProcs
  /\ rank \in 0..(nb_procs - 1)
  /\ blocks_distribution \in
       {<<>>} \cup UNION {Distributions(P, nb_blocks) : P \in 1..(MaxProcs + 1)}
  /\ past_the_end = 0
  /\ GenerationIdle /\ PartitionerIdle /\ MappingIdle
  /\ do_assertions \in BOOLEAN

\* BlockArrays::create_mesh from the read of option blocks_distribution to
\* the head of create_nodes_distribution: an empty distribution is an error
\* on a parallel run and stands for all blocks on a serial one, and a
\* distribution that has not nb_procs + 1 entries is an error.
CheckDistribution ==
  /\ generator = "BlockArrays"
  /\ pc = "distribute"
  /\ \/ /\ Size(blocks_distribution) = 0
        /\ nb_procs # 1
        /\ pc' = "SetupError"
        /\ UNCHANGED blocks_distribution
     \/ /\ Size(blocks_distribution) = 0
        /\ nb_procs = 1
        /\ blocks_distribution' = (0 :> 0 @@ 1 :> nb_blocks)
        /\ pc' = "checked"
     \/ /\ Size(blocks_distribution) # 0
        /\ pc' = IF Size(blocks_distribution) # nb_procs + 1 THEN "SetupError" ELSE "checked"
        /\ UNCHANGED blocks_distribution
  /\ UNCHANGED <<partitioner, mapping, do_assertions, element_ids, generator, face_patch, dimensions,
                 block_cells, periodic_axes, block_subdivisions, nb_procs, rank, past_the_end, tables, oracle,
                 distribution, ghosts, cells, output, calls>>

\* build_mesh_2d / build_mesh_3d up to the end of the loop that fills
\* elements_dist: the length of block_distribution is only asserted, and
\* the loop reads its entries 0 .. nb_procs; reading past its end is
\* undefined, the run stops there or carries on.
BuildMeshElementsDist ==
  /\ generator = "BlockData"
  /\ pc = "start"
  /\ \/ /\ do_assertions
        /\ Size(blocks_distribution) # nb_procs + 1
        /\ pc' = "FailedAssertion"
        /\ UNCHANGED undefined
     \/ /\ do_assertions => Size(blocks_distribution) = nb_procs + 1
        /\ Size(blocks_distribution) < nb_procs + 1
        /\ pc' \in {"crashed", "elements_dist"}
        /\ undefined' = TRUE
     \/ /\ do_assertions => Size(blocks_distribution) = nb_procs + 1
        /\ Size(blocks_distribution) >= nb_procs + 1
        /\ pc' = "elements_dist"
        /\ UNCHANGED undefined
  /\ UNCHANGED <<mapping, do_assertions, element_ids, input, oracle, distribution, ghosts, cells, output,
                 calls, partition_input, blocks_in, block_mesh, blocks_out, sweep, ppc, pass,
                 first_out, layers>>

DistributionNext ==
  \/ CreateBlocks
  \/ CheckDistribution
  \/ BuildMeshElementsDist

DistributionSpec == DistributionInit /\ [][DistributionNext]_vars

\* An empty distribution on a serial run: create_mesh takes all blocks.
SerialDefault == Size(blocks_distribution) = 0 /\ nb_procs = 1 /\ generator = "BlockArrays"

\* C19: a generator given a block distribution that has not nb_procs + 1
\* entries ends in an error: SetupError from BlockArrays::create_mesh, and
\* a rejection by build_mesh, which never reads past the end of the
\* distribution.
C19_WrongLengthRejected ==
  [][(/\ Size(blocks_distribution) # nb_procs + 1
      /\ ~SerialDefault
      /\ pc \in {"start", "distribute"}
      /\ pc' \notin {"start", "distribute"})
       => (pc' \in {"SetupError", "FailedAssertion"} /\ ~undefined')]_vars

\* C22: on a parallel run without a block distribution the generator does
\* not end in an error: it gets a distribution from the block partitioner
\* and goes on to generate the mesh.
C22_EmptyDistributionPartitioned ==
  (/\ generator = "BlockArrays"
   /\ nb_procs > 1
   /\ Size(blocks_distribution) = 0
   /\ pc \notin {"start", "distribute"}) =>
     pc # "SetupError"

----------------------------------------------------------------------------
(* detail::create_mapped_coords as a state machine *)

\* A call create_mapped_coords(segments, gradings, mapped_coords, nb_edges)
\* to come, for the edges along one axis of a block: any number of
\* segments from 0 on and for each edge any of the gradings whose mapped
\* coordinates the model can represent.
MappedCoordsInit ==
  /\ generator = "create_mapped_coords"
  /\ Topology
  /\ nb_blocks = 1
  /\ \A d \in Axes : block_subdivisions[0][d] = 1
  /\ nb_procs = 1
  /\ rank = 0
  /\ blocks_distribution = (0 :> 0 @@ 1 :> 1)
  /\ past_the_end = 0
  /\ GenerationIdle /\ PartitionerIdle
  /\ do_assertions \in BOOLEAN
  /\ mc_segments \in 0..MaxCells
  /\ mc_gradings \in [0..(FaceSize - 1) -> GradingValues]
  /\ \A e \in DOMAIN mc_gradings : Representable(mc_gradings[e], mc_segments)
  /\ mapped_coords = <<>>
  /\ mapped_status = "called"

\* The call: the table is resized and filled up to the edge at which an
\* assertion fails, if one does.
CreateMappedCoords ==
  /\ mapped_status = "called"
  /\ \E r \in {create_mapped_coords(mc_segments, mc_gradings, FaceSize)} :
       /\ mapped_coords' = r.table
       /\ mapped_status' = r.status
  /\ UNCHANGED <<generation, partitioner, do_assertions, mc_segments, mc_gradings>>

MappedCoordsNext == CreateMappedCoords

MappedCoordsSpec == MappedCoordsInit /\ [][MappedCoordsNext]_vars

\* A grading r <= 0 among the gradings, or no segment.
BadGrading == mc_segments = 0 \/ \E e \in DOMAIN mc_gradings : mc_gradings[e] <= 0

\* C20: with a grading r <= 0 or with n = 0 segments create_mapped_coords
\* fails with InvalidGrading and has produced no mapped coordinate.
C20_BadGradingRejected ==
  (mapped_status # "called" /\ BadGrading) =>
     /\ mapped_status = "InvalidGrading"
     /\ mapped_coords = <<>>

\* The increase of the mapped coordinate of an edge over segment i, as a
\* numerator over the denominator of the edge.
Spacing(edge, i) == mapped_coords[i][edge] - mapped_coords[i - 1][edge]

\* C21: with n >= 1 segments and gradings r > 0, create_mapped_coords
\* returns, for each edge, n + 1 strictly increasing coordinates from -1 to
\* 1, with spacing 2 / n when r = 1 and with the last spacing r times the
\* first one otherwise.
C21_MappedCoordinates ==
  (/\ mapped_status # "called"
   /\ mc_segments >= 1
   /\ \A e \in DOMAIN mc_gradings : mc_gradings[e] > 0) =>
     /\ mapped_status = "returned"
     /\ DOMAIN mapped_coords = 0..mc_segments
     /\ \A e \in DOMAIN mc_gradings :
          /\ \A i \in 0..mc_segments : ~IsNaN(mapped_coords[i][e])
          /\ mapped_coords[0][e] = 0 - EdgeDen(mc_gradings[e], mc_segments)
          /\ mapped_coords[mc_segments][e] = EdgeDen(mc_gradings[e], mc_segments)
          /\ \A i \in 1..mc_segments : Spacing(e, i) > 0
          /\ mc_gradings[e] = 1 =>
               \A i \in 1..mc_segments :
                  Spacing(e, i) * mc_segments = 2 * EdgeDen(mc_gradings[e], mc_segments)
          /\ mc_gradings[e] # 1 =>
               Spacing(e, mc_segments) = mc_gradings[e] * Spacing(e, 1)

----------------------------------------------------------------------------
(* Global ids of the elements *)

\* The sum of the element counts of the processes below q.
RankOffset(q) ==
  LET below[p \in 0..q] == IF p = 0 THEN 0 ELSE below[p - 1] + MeshNbElemsAt(p - 1)
  IN below[q]

\* The global ids process q is to give its elements.
RankIds(q) == RankOffset(q)..(RankOffset(q + 1) - 1)

\* The global ids this process gave its elements.
EmittedIds ==
  UNION {{elements_glb_idx[n][elem] : elem \in DOMAIN elements_glb_idx[n]} :
           n \in DOMAIN elements_glb_idx}

\* The number of elements that were given a global id.
NbNumbered ==
  LET count[n \in 0..Len(elements_glb_idx)] ==
        IF n = 0 THEN 0 ELSE count[n - 1] + Cardinality(DOMAIN elements_glb_idx[n])
  IN count[Len(elements_glb_idx)]

\* C23: the global element ids of build_mesh are consistent across the
\* ranks: rank r numbers its elements consecutively from the sum of the
\* element counts of the ranks below it, pairwise distinct, so that the
\* ranks together cover 0 .. N - 1 without overlap, and every element has
\* the rank that emitted it.
C23_ElementIdsConsistent ==
  pc = "built" =>
    /\ mesh_nb_elems = MeshNbElemsAt(rank)
    /\ NbNumbered = mesh_nb_elems
    /\ Cardinality(EmittedIds) = NbNumbered
    /\ EmittedIds = RankIds(rank)
    /\ \A n \in DOMAIN elements_glb_idx : \A elem \in DOMAIN elements_glb_idx[n] :
         /\ elements_rank[n][elem] = rank
         /\ elem > 0 => elements_glb_idx[n][elem] = elements_glb_idx[n][elem - 1] + 1
    /\ \A q1, q2 \in 0..(nb_procs - 1) : q1 # q2 => RankIds(q1) \cap RankIds(q2) = {}
    /\ UNION {RankIds(q) : q \in 0..(nb_procs - 1)} = 0..(RankOffset(nb_procs) - 1)

\* A rank above 0 that follows a rank with elements numbered its volume
\* elements and the elements of a patch.
C23_Witness ==
  /\ pc = "built"
  /\ rank > 0
  /\ RankOffset(rank) > 0
  /\ \A n \in DOMAIN elements_glb_idx : DOMAIN elements_glb_idx[n] # {}
  /\ Len(elements_glb_idx) >= 2

----------------------------------------------------------------------------
(* Boundary faces without a named patch *)

\* Bounds of the block topologies with unnamed boundary faces.
MaxShellBlocks == 2
MaxShellSegments == 2
MaxShellCells == 8

\* A block topology of which the named patch "wall" holds the boundary
\* faces normal to some of the axes only; the other boundary faces are
\* left to the default patch.
ShellTopology ==
  /\ dimensions \in {2, 3}
  /\ periodic_axes = {}
  /\ \E S \in UNION {ShapesOfSize(n, dimensions) : n \in 1..MaxShellBlocks} :
       /\ block_cells = OrderCells(S)
       /\ \E named \in SUBSET (0..(dimensions - 1)) :
            face_patch = [f \in {g \in BoundaryFaces(OrderCells(S)) : g[2] \in named} |-> "wall"]
       /\ \E sx \in [Lines(S, 0) -> 1..MaxShellSegments],
             sy \in [Lines(S, 1) -> 1..MaxShellSegments],
             sz \in [Lines(S, 2) -> IF dimensions = 3 THEN 1..MaxShellSegments ELSE {1}] :
            /\ NbCells(S, sx, sy, sz) <= MaxShellCells
            /\ block_subdivisions =
                 [b \in 0..(Cardinality(S) - 1) |->
                    [d \in 0..(dimensions - 1) |->
                       CASE d = 0 -> sx[OrderCells(S)[b][1]]
                         [] d = 1 -> sy[OrderCells(S)[b][2]]
                         [] d = 2 -> sz[OrderCells(S)[b][3]]]]

\* BlockArrays::create_mesh on one process.
DefaultPatchInit ==
  /\ generator = "BlockArrays"
  /\ ShellTopology
  /\ nb_procs = 1
  /\ rank = 0
  /\ blocks_distribution \in Distributions(1, nb_blocks)
  /\ past_the_end \in HeapWords
  /\ GenerationIdle
  /\ PartitionerIdle
  /\ MappingIdle
  /\ do_assertions = TRUE

DefaultPatchNext ==
  \/ CreateBlocks
  \/ CreateNodesDistribution
  \/ AddBlock
  \/ InitializeNodes
  \/ AddPatch

DefaultPatchSpec == DefaultPatchInit /\ [][DefaultPatchNext]_vars

\* The boundary faces no named patch holds.
DefaultFaces == BoundaryFaces(block_cells) \ DOMAIN face_patch

\* The faces of the cells of the refined mesh on face f of its block.
FaceCells(f) ==
  ProductOver(block_subdivisions[f[1]], Axes \ {f[2]})

\* The number of cell faces on the block faces F.
NbFaceCells(F) ==
  LET RECURSIVE Sum(_)
      Sum(T) == IF T = {} THEN 0
                ELSE LET f == CHOOSE g \in T : TRUE IN FaceCells(f) + Sum(T \ {f})
  IN Sum(F)

\* The number of surface elements of the generated mesh.
NbSurfaceElements ==
  LET RECURSIVE Sum(_)
      Sum(T) == IF T = {} THEN 0
                ELSE LET n == CHOOSE m \in T : TRUE
                     IN Cardinality(DOMAIN patch_connectivity[n]) + Sum(T \ {n})
  IN Sum(DOMAIN patch_connectivity)

\* C24: on one process the generated mesh has one surface element for every
\* boundary face of the refined mesh, those of the block faces without a
\* named patch under the default patch.
C24_EveryBoundaryFaceEmitted ==
  (generator = "BlockArrays" /\ nb_procs = 1 /\ pc = "done") =>
    /\ NbSurfaceElements = NbFaceCells(BoundaryFaces(block_cells))
    /\ DefaultFaces # {} =>
         /\ "default_patch" \in DOMAIN patch_connectivity
         /\ Cardinality(DOMAIN patch_connectivity["default_patch"]) = NbFaceCells(DefaultFaces)

\* The same where a named patch holds every boundary face.
C24_NamedFacesEmitted ==
  (generator = "BlockArrays" /\ nb_procs = 1 /\ pc = "done" /\ DefaultFaces = {}) =>
    NbSurfaceElements = NbFaceCells(BoundaryFaces(block_cells))

\* One block with segments (2, 2, 2) and no named patch: 27 nodes and 8
\* cells were generated.
C24_UnitBox ==
  /\ pc = "done"
  /\ dimensions = 3
  /\ nb_blocks = 1
  /\ \A d \in Axes : block_subdivisions[0][d] = 2
  /\ face_patch = <<>>
  /\ nb_nodes = 27
  /\ Cardinality(DOMAIN volume_connectivity) = 8
  /\ NbSurfaceElements = 0

----------------------------------------------------------------------------
(* BlockArrays::create_mesh with its checks *)

\* A call of BlockArrays::create_mesh for at most MaxShellBlocks blocks:
\* at most one of the tables was never created, and the block distribution
\* is empty or made for any number of processes.
CreateMeshInit ==
  /\ generator = "BlockArrays"
  /\ Topology
  /\ nb_blocks <= MaxShellBlocks
  /\ nb_procs \in 1..MaxProcs
  /\ rank \in 0..(nb_procs - 1)
  /\ blocks_distribution \in
       {<<>>} \cup UNION {Distributions(P, nb_blocks) : P \in 1..(MaxProcs + 1)}
  /\ past_the_end \in HeapWords
  /\ \E created \in {TopologyTables} :
       tables \in {[n \in DOMAIN created \ missing |-> created[n]] :
                     missing \in {{}} \cup {{h} : h \in Handles}}
  /\ pc = "called"
  /\ NoHelperData
  /\ MeshUntouched
  /\ PartitionerIdle
  /\ MappingIdle
  /\ do_assertions = TRUE

\* A mutation of CheckedHandles: block_gradings is not checked.
CheckedHandlesWithoutGradings == {"points", "blocks", "block_subdivisions"}

\* The handles the check_handle calls of create_mesh test.
CheckedHandles == {"points", "blocks", "block_subdivisions", "block_gradings"}

\* BlockArrays::create_mesh: the check_handle calls and create_block_mesh,
\* which builds the inner block mesh of the BlockArrays component.
CheckHandles ==
  /\ generator = "BlockArrays"
  /\ pc = "called"
  /\ pc' = IF CheckedHandles \subseteq handles THEN "start" ELSE "SetupError"
  /\ UNCHANGED <<partitioner, mapping, do_assertions, element_ids, input, oracle, distribution,
                 ghosts, cells, output, calls>>

\* The step after the check of the block distribution.
CreateNodesDistributionChecked ==
  /\ generator = "BlockArrays"
  /\ pc = "checked"
  /\ NodesDistributionEffect

CreateMeshNext ==
  \/ CheckHandles
  \/ CreateBlocks
  \/ CheckDistribution
  \/ CreateNodesDistributionChecked
  \/ AddBlock
  \/ InitializeNodes
  \/ AddPatch

CreateMeshSpec == CreateMeshInit /\ [][CreateMeshNext]_vars

\* A table was never created, the distribution is empty on a parallel run
\* or its length is not nb_procs + 1.
CreateMeshFails ==
  \/ handles # Handles
  \/ Size(blocks_distribution) = 0 /\ nb_procs # 1
  \/ Size(blocks_distribution) \notin {0, nb_procs + 1}

\* C25: a call of BlockArrays::create_mesh that fails on a table that was
\* never created, on an empty distribution of a parallel run or on a
\* distribution whose length is not nb_procs + 1 ends in SetupError with
\* no region, element or node added to the mesh.
C25_FailureLeavesMeshUntouched ==
  /\ (CreateMeshFails /\ pc \notin {"called", "start", "distribute"}) => pc = "SetupError"
  /\ pc = "SetupError" => (CreateMeshFails /\ MeshUntouched)

\* The latest of the failures: a distribution of the wrong length, found
\* after create_blocks ran.
C25_Witness ==
  /\ pc = "SetupError"
  /\ handles = Handles
  /\ Size(blocks_distribution) \notin {0, nb_procs + 1}
  /\ block_list # <<>>

----------------------------------------------------------------------------
(* The tables of BlockArrays *)

\* The description of a block topology, before any table was created.
TablesInit ==
  /\ generator = "BlockArrays"
  /\ Topology
  /\ nb_procs = 1
  /\ rank = 0
  /\ blocks_distribution \in Distributions(1, nb_blocks)
  /\ past_the_end = 0
  /\ tables = <<>>
  /\ pc = "setup"
  /\ NoHelperData
  /\ MeshUntouched
  /\ PartitionerIdle
  /\ MappingIdle
  /\ do_assertions = TRUE

\* What a call that creates a table leaves alone.
described == <<generator, face_patch, dimensions, block_cells, periodic_axes, block_subdivisions, nb_procs,
               rank, blocks_distribution, past_the_end, oracle, distribution, ghosts, cells,
               output, element_ids, pc, calls, partitioner, mapping, do_assertions>>

\* BlockArrays::create_points for the points of the topology.
CreatePoints ==
  /\ pc = "setup"
  /\ "points" \notin DOMAIN tables
  /\ tables' = create_points(tables, dimensions,
                  Cardinality(UNION {CellPoints(block_cells[b]) : b \in DOMAIN block_cells}))
  /\ UNCHANGED described

\* BlockArrays::create_blocks, once the points exist.
CreateBlocksTable ==
  /\ pc = "setup"
  /\ "points" \in DOMAIN tables
  /\ "blocks" \notin DOMAIN tables
  /\ tables' = create_blocks_table(tables, nb_blocks)
  /\ UNCHANGED described

\* BlockArrays::create_block_subdivisions, once points and blocks exist.
CreateBlockSubdivisions ==
  /\ pc = "setup"
  /\ {"points", "blocks"} \subseteq DOMAIN tables
  /\ "block_subdivisions" \notin DOMAIN tables
  /\ tables' = create_block_subdivisions(tables)
  /\ UNCHANGED described

\* BlockArrays::create_block_gradings, once points and blocks exist.
CreateBlockGradings ==
  /\ pc = "setup"
  /\ {"points", "blocks"} \subseteq DOMAIN tables
  /\ "block_gradings" \notin DOMAIN tables
  /\ tables' = create_block_gradings(tables)
  /\ UNCHANGED described

\* BlockArrays::create_patch(name, nb_faces), once the points exist.
CreatePatch ==
  /\ pc = "setup"
  /\ "points" \in DOMAIN tables
  /\ \E name \in PatchNames \ DOMAIN tables :
       tables' = create_patch(tables, name, NbPatchFaces(name))
  /\ UNCHANGED described

TablesNext ==
  \/ CreatePoints
  \/ CreateBlocksTable
  \/ CreateBlockSubdivisions
  \/ CreateBlockGradings
  \/ CreatePatch

TablesSpec == TablesInit /\ [][TablesNext]_vars

\* The row size the data model gives the table `name` in D dimensions.
ModelRowSize(name, D) ==
  CASE name = "points" -> D
    [] name = "blocks" -> 2 ^ D
    [] name = "block_subdivisions" -> D
    [] name = "block_gradings" -> IF D = 3 THEN 12 ELSE 4
    [] OTHER -> 2 ^ (D - 1)

\* C26: the tables BlockArrays creates have the shapes of the data model
\* in 2D and in 3D: 2^D corner indices per block, D subdivisions, 4 or 12
\* gradings and 2^(D-1) point indices per patch face.
C26_TableShapes ==
  pc = "setup" =>
    \A name \in DOMAIN tables :
       tables[name].row_size = ModelRowSize(name, tables["points"].row_size)

\* The same in 3D only.
C26_TableShapes3D ==
  (pc = "setup" /\ dimensions = 3) =>
    \A name \in DOMAIN tables :
       tables[name].row_size = ModelRowSize(name, tables["points"].row_size)

----------------------------------------------------------------------------
(* The patches and the pieces of the output of partition_blocks *)

\* The faces listed in patch patch_idx of the output, each as the set of
\* its points.
OutPatchFaces(patch_idx) ==
  LET pp == blocks_out.patch_points[patch_idx]
  IN {{pp[FaceSize * e + n] : n \in 0..(FaceSize - 1)} :
        e \in 0..((Size(pp) \div FaceSize) - 1)}

\* The points of face f of output block b.
OutFacePoints(b, f) ==
  {blocks_out.block_points[b][FaceNodes(f)[n]] : n \in 1..Len(FaceNodes(f))}

\* The output blocks that have a face with the points F.
OutBlocksWithFace(F) ==
  {b \in DOMAIN blocks_out.block_points : \E f \in AllFaces : OutFacePoints(b, f) = F}

\* C27: after partition_blocks every face listed in an output patch is
\* made of valid indices into the output points and is a face of exactly
\* one output block.
C27_PatchFacesAreBoundaryFaces ==
  (ppc = "done" /\ pass = 1) =>
     \A patch_idx \in DOMAIN blocks_out.patch_points :
        \A F \in OutPatchFaces(patch_idx) :
           /\ F \subseteq DOMAIN blocks_out.points
           /\ Cardinality(OutBlocksWithFace(F)) = 1

\* The same for the runs that read nothing outside their tables.
C27_DefinedRuns ==
  (ppc = "done" /\ pass = 1 /\ ~undefined) =>
     \A patch_idx \in DOMAIN blocks_out.patch_points :
        \A F \in OutPatchFaces(patch_idx) :
           /\ F \subseteq DOMAIN blocks_out.points
           /\ Cardinality(OutBlocksWithFace(F)) = 1

\* The index in blocks_out of the piece written for entry n of the layer of
\* pass k of the run.
RECURSIVE PieceIndex(_, _)
PieceIndex(k, n) == IF k = 1 THEN n ELSE Size(layers[k - 1].layer) + PieceIndex(k - 1, n)

\* The pieces of input block block_idx, as <<pass of the run, layer entry>>.
Pieces(block_idx) ==
  {x \in (DOMAIN layers) \X (0..(Size(blocks_in.block_points) - 1)) :
     /\ x[2] \in DOMAIN layers[x[1]].layer
     /\ layers[x[1]].layer[x[2]] = block_idx}

\* The corner of output block b at node i of face f (i from 1).
OutFaceCorner(b, f, i) == blocks_out.block_points[b][FaceNodes(f)[i]]

\* Piece x of input block block_idx fits its place in the block: its start
\* face is the start face of the block or the end face of the piece before
\* it, and its end face is the end face of the block when it is the last.
PieceFits(block_idx, x) ==
  LET before == {y \in Pieces(block_idx) : y[1] < x[1]}
      after == {y \in Pieces(block_idx) : y[1] > x[1]}
      b == PieceIndex(x[1], x[2])
  IN /\ before = {} =>
          \A i \in 1..FaceSize :
             OutFaceCorner(b, start_direction, i)
               = blocks_in.block_points[block_idx][FaceNodes(start_direction)[i]]
     /\ \A y \in before : (\A z \in before : z[1] <= y[1]) =>
          OutFacePoints(b, start_direction)
            = OutFacePoints(PieceIndex(y[1], y[2]), end_direction)
     /\ after = {} =>
          \A i \in 1..FaceSize :
             OutFaceCorner(b, end_direction, i)
               = blocks_in.block_points[block_idx][FaceNodes(end_direction)[i]]

\* C28: the pieces partition_blocks writes for an input block tile it
\* along the direction, whatever the layers are made of: every output
\* block has 2^D corners that are indices into the output points, the
\* first piece starts at the start face of its input block, every later
\* piece starts where the piece before it ends, the last piece ends at the
\* end face of the input block, and the input points keep their indices
\* and values.
C28_PiecesTileBlocks ==
  (ppc = "done" /\ pass = 1) =>
     /\ \A b \in DOMAIN blocks_out.block_points :
          /\ DOMAIN blocks_out.block_points[b] = 0..(2 ^ dimensions - 1)
          /\ \A n \in DOMAIN blocks_out.block_points[b] :
               blocks_out.block_points[b][n] \in DOMAIN blocks_out.points
     /\ \A block_idx \in DOMAIN blocks_in.block_points :
          \A x \in Pieces(block_idx) : PieceFits(block_idx, x)
     /\ \A i \in DOMAIN blocks_in.points : blocks_out.points[i] = blocks_in.points[i]

\* The same for the layers whose entry n is block n.
C28_IdentityLayers ==
  (/\ ppc = "done" /\ pass = 1
   /\ \A k \in DOMAIN layers : \A n \in DOMAIN layers[k].layer : layers[k].layer[n] = n) =>
     /\ \A b \in DOMAIN blocks_out.block_points :
          /\ DOMAIN blocks_out.block_points[b] = 0..(2 ^ dimensions - 1)
          /\ \A n \in DOMAIN blocks_out.block_points[b] :
               blocks_out.block_points[b][n] \in DOMAIN blocks_out.points
     /\ \A block_idx \in DOMAIN blocks_in.block_points :
          \A x \in Pieces(block_idx) : PieceFits(block_idx, x)
     /\ \A i \in DOMAIN blocks_in.points : blocks_out.points[i] = blocks_in.points[i]

\* ---------------------------------------------------------------------------
\* The assertions at the head of a partition
\* ---------------------------------------------------------------------------

\* The input has at least one block whose start face lies on the boundary.
HasStartingLayer ==
  /\ ppc \notin {"input", "start"}
  /\ starting_layer(Size(blocks_in.block_points)) # <<>>

\* C29: for every input with a non-empty starting layer, every nb_partitions
\* >= 1 and every segment count, the assertions of partition_blocks hold:
\* slice_size > 0 at the start of each partition, the slices are cut down to
\* the remaining elements in the last partition only, and the remaining
\* element count is then a multiple of slice_size.  A run with assertions on
\* never stops at a failed assertion, and a run with assertions off never
\* divides by a slice_size of zero.
C29_AssertionsHold ==
  (pass = 1 /\ HasStartingLayer) =>
    /\ ppc # "FailedAssertion"
    /\ ppc = "partition" /\ partition # nb_partitions =>
         HeadAssertions(slice_size_loop(next_block_layer, Size(next_block_layer)))

\* The same for an input of one block, where no layer follows the first.
C29_SingleBlock ==
  (pass = 1 /\ HasStartingLayer /\ Size(blocks_in.block_points) = 1) =>
    ppc # "FailedAssertion"

----------------------------------------------------------------------------
(* Periodic topologies *)

\* A row of blocks along one axis that is closed to a ring: the last block
\* of the row has the first one across its end face, and a row of one block
\* has itself.  The patch "wall" holds the faces normal to the other axes.
PeriodicTopology ==
  /\ dimensions \in {2, 3}
  /\ \E a \in 0..(dimensions - 1) :
       /\ periodic_axes = {a}
       /\ \E S \in {T \in UNION {ShapesOfSize(n, dimensions) : n \in 1..MaxShellBlocks} :
                      \A c \in T : \A d \in (0..2) \ {a} : c[d + 1] = 0} :
            /\ block_cells = OrderCells(S)
            /\ face_patch = [f \in {g \in (DOMAIN OrderCells(S)) \X {0, 1, 2} \X {-1, 1} :
                                      g[2] < dimensions /\ g[2] # a} |-> "wall"]
            /\ \E sx \in [Lines(S, 0) -> 1..MaxShellSegments],
                  sy \in [Lines(S, 1) -> 1..MaxShellSegments],
                  sz \in [Lines(S, 2) -> IF dimensions = 3 THEN 1..MaxShellSegments ELSE {1}] :
                 /\ NbCells(S, sx, sy, sz) <= MaxShellCells
                 /\ block_subdivisions =
                      [b \in 0..(Cardinality(S) - 1) |->
                         [d \in 0..(dimensions - 1) |->
                            CASE d = 0 -> sx[OrderCells(S)[b][1]]
                              [] d = 1 -> sy[OrderCells(S)[b][2]]
                              [] d = 2 -> sz[OrderCells(S)[b][3]]]]

\* create_mesh and build_mesh on a periodic topology.
PeriodicInit ==
  /\ generator \in {"BlockArrays", "BlockData"}
  /\ PeriodicTopology
  /\ nb_procs \in 1..MaxShellBlocks
  /\ rank \in 0..(nb_procs - 1)
  /\ blocks_distribution \in Distributions(nb_procs, nb_blocks)
  /\ past_the_end \in (IF generator = "BlockArrays" THEN HeapWords ELSE {0})
  /\ GenerationIdle
  /\ PartitionerIdle
  /\ MappingIdle
  /\ do_assertions = TRUE

PeriodicSpec == PeriodicInit /\ [][Next]_vars

\* The rows of the volume connectivity have 2^D pairwise distinct entries.
DistinctCorners ==
  \A e \in DOMAIN volume_connectivity :
     Cardinality({volume_connectivity[e][s] : s \in DOMAIN volume_connectivity[e]})
       = 2 ^ dimensions

\* C30: every emitted cell has 2^D pairwise distinct node ids, for every
\* legal topology, including a block that is its own neighbour across a
\* periodic face and blocks with a single segment along an axis.
C30_DistinctNodeIds == DistinctCorners

\* The same without the blocks that are their own neighbour and have a single
\* segment along the periodic axis.
C30_NoSingleSegmentLoop ==
  (\A b \in DOMAIN block_cells : \A a \in periodic_axes :
      adjacent_element(b, a, 1).second = b => block_subdivisions[b][a] >= 2)
    => DistinctCorners

\* The same for build_mesh, which reads no word behind the block list.
C30_BuildMesh == generator = "BlockData" => DistinctCorners

\* The same for create_mesh when the word behind the block list is what
\* create_nodes_distribution expects.
C30_CreateMesh == (generator = "BlockArrays" /\ past_the_end = 0 /\ nb_procs = 1) => DistinctCorners
====
